---- MODULE Spec2Model ----
(***************************************************************************)
(* Duplicate detection and offline durability of the rail inventory        *)
(* client (src/src/app.jsx, src/src/scanner/Scanner.jsx).                  *)
(*                                                                         *)
(* Texts are sequences of one-character strings, so that trimming, case    *)
(* folding and tokenising are computed the way the JavaScript does it.     *)
(***************************************************************************)
EXTENDS Integers, Sequences, FiniteSets, TLC

\* ------------------------------------------------------------------------
\* Characters and strings
\* ------------------------------------------------------------------------
LowerSeq == <<"a","b","c","d","e","f","g","h","i","j","k","l","m",
              "n","o","p","q","r","s","t","u","v","w","x","y","z">>
UpperSeq == <<"A","B","C","D","E","F","G","H","I","J","K","L","M",
              "N","O","P","Q","R","S","T","U","V","W","X","Y","Z">>
LowerLetters == {LowerSeq[i] : i \in 1..26}
UpperLetters == {UpperSeq[i] : i \in 1..26}
Digits == {"0","1","2","3","4","5","6","7","8","9"}
\* characters JavaScript's \s and String.prototype.trim treat as blank
Whitespace == {" ", "\t", "\n", "\r"}
\* printable ASCII \x20-\x7E as far as the model's alphabet goes
Punctuation == {" ", "|", ",", ":", "/", "-", ".", "_", "#"}
Printable == LowerLetters \cup UpperLetters \cup Digits \cup Punctuation

ToUpperChar(c) ==
  IF c \in LowerLetters
    THEN UpperSeq[CHOOSE i \in 1..26 : LowerSeq[i] = c]
    ELSE c
ToUpperCase(s) == [i \in 1..Len(s) |-> ToUpperChar(s[i])]

RECURSIVE TrimStart(_)
TrimStart(s) ==
  IF s # <<>> /\ Head(s) \in Whitespace THEN TrimStart(Tail(s)) ELSE s
RECURSIVE TrimEnd(_)
TrimEnd(s) ==
  IF s # <<>> /\ s[Len(s)] \in Whitespace
    THEN TrimEnd(SubSeq(s, 1, Len(s) - 1)) ELSE s
Trim(s) == TrimEnd(TrimStart(s))

AllIn(s, S) == \A i \in 1..Len(s) : s[i] \in S

\* Array.prototype.find: the first element satisfying P, or the empty
\* string when there is none (every caller writes `|| ''`)
FindFirst(ts, P(_)) ==
  IF \E i \in 1..Len(ts) : P(ts[i])
    THEN ts[CHOOSE i \in 1..Len(ts) :
              P(ts[i]) /\ \A j \in 1..(i - 1) : ~P(ts[j])]
    ELSE <<>>

\* normalizeSerial = String(s || '').trim().toUpperCase()
normalizeSerial(s) == ToUpperCase(Trim(s))

\* ------------------------------------------------------------------------
\* parseQrPayload
\* ------------------------------------------------------------------------
\* .replace(/[^\x20-\x7E]/g, ' ')
ReplaceNonPrintable(s) ==
  [i \in 1..Len(s) |-> IF s[i] \in Printable THEN s[i] ELSE " "]
\* .replace(/\s+/g, ' ')
RECURSIVE CollapseWhitespace(_)
CollapseWhitespace(s) ==
  IF s = <<>> THEN <<>>
  ELSE IF Head(s) \in Whitespace
    THEN <<" ">> \o CollapseWhitespace(TrimStart(s))
    ELSE <<Head(s)>> \o CollapseWhitespace(Tail(s))
CleanText(raw) == Trim(CollapseWhitespace(ReplaceNonPrintable(raw)))

Separators == {" ", "\t", "\r", "\n", "|", ",", ":", "/"}
\* clean.split(/[ \t\r\n|,:/]+/).filter(Boolean)
RECURSIVE SplitFrom(_, _, _)
SplitFrom(s, cur, acc) ==
  IF s = <<>>
    THEN (IF cur = <<>> THEN acc ELSE Append(acc, cur))
  ELSE IF Head(s) \in Separators
    THEN SplitFrom(Tail(s), <<>>, IF cur = <<>> THEN acc ELSE Append(acc, cur))
    ELSE SplitFrom(Tail(s), Append(cur, Head(s)), acc)
Tokenize(clean) == SplitFrom(clean, <<>>, <<>>)

\* /^[A-Z0-9]{n,}$/
IsSerialToken(t, n) == Len(t) >= n /\ AllIn(t, UpperLetters \cup Digits)
\* /^SAR\d{2}$/i
IsGradeToken(t) ==
  /\ Len(t) = 5
  /\ ToUpperCase(SubSeq(t, 1, 3)) = <<"S","A","R">>
  /\ AllIn(SubSeq(t, 4, 5), Digits)
\* /^R\d{3}(?:L?HT)?$/ on the upper-cased token
IsRailTypeToken(u) ==
  /\ Len(u) >= 4
  /\ u[1] = "R"
  /\ AllIn(SubSeq(u, 2, 4), Digits)
  /\ SubSeq(u, 5, Len(u)) \in {<<>>, <<"H","T">>, <<"L","H","T">>}
\* /^(ATX|ATA|AREMA|UIC|EN\d*|GB\d*)$/ on the upper-cased token
IsSpecPrefix(u) ==
  \/ u \in {<<"A","T","X">>, <<"A","T","A">>, <<"A","R","E","M","A">>,
            <<"U","I","C">>}
  \/ /\ Len(u) >= 2
     /\ SubSeq(u, 1, 2) \in {<<"E","N">>, <<"G","B">>}
     /\ AllIn(SubSeq(u, 3, Len(u)), Digits)
\* /^[A-Z0-9-]{3,}$/i
IsSpecCode(t) ==
  Len(t) >= 3 /\ AllIn(ToUpperCase(t), UpperLetters \cup Digits \cup {"-"})
\* /^\d{1,3}(\.\d+)?m$/i
IsLengthToken(t) ==
  /\ Len(t) >= 2
  /\ ToUpperChar(t[Len(t)]) = "M"
  /\ LET body == SubSeq(t, 1, Len(t) - 1)
     IN  \/ Len(body) \in 1..3 /\ AllIn(body, Digits)
         \/ \E k \in 1..3 :
              /\ Len(body) >= k + 2
              /\ AllIn(SubSeq(body, 1, k), Digits)
              /\ body[k + 1] = "."
              /\ AllIn(SubSeq(body, k + 2, Len(body)), Digits)

ParseSpec(tokens) ==
  IF \E i \in 1..Len(tokens) : IsSpecPrefix(ToUpperCase(tokens[i]))
    THEN LET i == CHOOSE k \in 1..Len(tokens) :
                    /\ IsSpecPrefix(ToUpperCase(tokens[k]))
                    /\ \A j \in 1..(k - 1) : ~IsSpecPrefix(ToUpperCase(tokens[j]))
             next == IF i + 1 <= Len(tokens) THEN tokens[i + 1] ELSE <<>>
         IN  IF IsSpecCode(next) THEN tokens[i] \o <<" ">> \o next
                                 ELSE tokens[i]
    ELSE <<>>

\* faulty variant: the first token of 8 or more characters, whatever follows
SerialOfFirstFit(tokens) ==
  LET IsShort(t) == IsSerialToken(t, 8)
  IN  FindFirst(tokens, IsShort)
\* tokens.find(12 or more) || tokens.find(8 or more) || ''
SerialOf(tokens) ==
  LET IsLong(t)  == IsSerialToken(t, 12)
      IsShort(t) == IsSerialToken(t, 8)
      long == FindFirst(tokens, IsLong)
  IN  IF long # <<>> THEN long ELSE FindFirst(tokens, IsShort)
\* faulty variant: a rail type token passes for a grade and the equality
\* rule is missing
GradeOfRailToo(tokens, railType) ==
  LET IsGradeOrRail(t) == IsGradeToken(t) \/ IsRailTypeToken(ToUpperCase(t))
  IN  ToUpperCase(FindFirst(tokens, IsGradeOrRail))
\* the first SAR token in upper case, given up when it equals the rail type:
\* `if (grade && railType && grade === railType) grade = ''`
GradeOf(tokens, railType) ==
  LET grade0 == ToUpperCase(FindFirst(tokens, IsGradeToken))
  IN  IF grade0 # <<>> /\ railType # <<>> /\ grade0 = railType
        THEN <<>> ELSE grade0
\* faulty variant: the result keeps the serial in place of the text
RawFieldSerial(clean, serial) == serial
\* `raw: clean`
RawField(clean, serial) == clean

parseQrPayload(rawText) ==
  LET clean   == CleanText(rawText)
      tokens  == Tokenize(clean)
      IsRail(t)  == IsRailTypeToken(ToUpperCase(t))
      serial  == SerialOf(tokens)
      railType == ToUpperCase(FindFirst(tokens, IsRail))
  IN  [raw |-> RawField(clean, serial), serial |-> serial,
       grade |-> GradeOf(tokens, railType),
       railType |-> railType, spec |-> ParseSpec(tokens),
       lengthM |-> FindFirst(tokens, IsLengthToken)]

\* ------------------------------------------------------------------------
\* Bounds of the model
\* ------------------------------------------------------------------------
MaxCaps == 2        \* captures (scans and manual entries) in one behaviour
MaxRestarts == 1    \* process restarts in one behaviour
MaxFlush == 2       \* flushBoth invocations in flight at once
MaxTicks == 2       \* clock ticks in one behaviour
MaxDet == 1         \* onDetected calls awaiting the existence check at once
MaxConf == 1        \* confirmPending calls in flight at once
MaxDmg == 1         \* saveDamaged calls in flight at once
MaxIdbFaults == 1   \* IndexedDB requests that fail in one behaviour
MaxEvents == 3      \* socket events delivered in one behaviour
MaxRemove == 1      \* confirmRemoveScan calls in flight at once
MaxClear == 1       \* clearAllForCurrentMode calls in flight at once
MaxTokens == 3      \* tokens of a text handed to the parser on its own
MaxClicks == 2      \* confirmPending calls in flight at once where clicks repeat
MaxAlerts == 2      \* alerts after which no further remove or clear is begun

\* ------------------------------------------------------------------------
\* Workspaces, endpoints, stores
\* ------------------------------------------------------------------------
Modes == {"main", "alt"}
modeIsAlt(m) == m = "alt"
\* endpoints.scan / endpoints.exists / endpoints.staged and the bulk path:
\* the remote table a request of mode m is addressed to
endpointScan(m) == IF modeIsAlt(m) THEN "alt" ELSE "main"
endpointExists(m) == IF modeIsAlt(m) THEN "alt" ELSE "main"
endpointStaged(m) == IF modeIsAlt(m) THEN "alt" ELSE "main"
bulkPath(m) == IF modeIsAlt(m) THEN "alt" ELSE "main"

STORE_MAIN == "queue_main"
STORE_ALT == "queue_alt"
Stores == {STORE_MAIN, STORE_ALT}
\* faulty variant: one store for both workspaces
storeForModeShared(m) == STORE_MAIN
storeForMode(m) == IF modeIsAlt(m) THEN STORE_ALT ELSE STORE_MAIN

PAGE_SIZE == 200
DebounceMs == 1200
TickMs == 600

None == <<>>
Some(x) == <<x>>
EmptyExtras == [grade |-> <<>>, railType |-> <<>>, spec |-> <<>>, lengthM |-> <<>>]
FIXED_DAMAGED ==
  [grade |-> <<"S","A","R","4","8">>, railType |-> <<"R","2","6","0">>,
   spec |-> <<"A","T","A"," ","2","D","X","0","6","6","-","2","5">>,
   lengthM |-> <<"3","6"," ","m">>]

\* ------------------------------------------------------------------------
\* Inputs
\* ------------------------------------------------------------------------
\* decoded texts the scanner hands to onDetected
ScanTexts == { <<"a","b">>, <<"A","B"," ">>, <<"c","d","#","1">> }
\* two of them, for the specifications that need no second spelling
TwoTexts == { <<"a","b">>, <<"c","d","#","1">> }
\* serials typed into the Damaged QR form
ManualSerials == { <<"a","b">>, <<" ","c","d","#","1">> }
\* tokens of the texts handed to the parser on its own: two serials of 12
\* or more characters, one of 8, a grade, two rail types, a specification
\* prefix, a two-digit code and a length
ParserTokens ==
  { <<"R","A","I","L","C","O","1","2","3","4","5","6","7","8","9">>,
    <<"X","Y","1","2","3","4","5","6","7","8","9","0">>,
    <<"A","B","1","2","3","4","5","6">>,
    <<"S","A","R","6","0">>,
    <<"R","2","6","0","L","H","T">>,
    <<"R","2","6","0","H","T">>,
    <<"U","I","C">>,
    <<"6","0">>,
    <<"1","8","m">> }
\* what stands between two tokens: a blank, a bar, a tab and a blank
ParserSeps == { <<" ">>, <<"|">>, <<"\t"," ">> }
RECURSIVE Join(_, _)
Join(ts, sep) ==
  IF Len(ts) = 0 THEN <<>>
  ELSE IF Len(ts) = 1 THEN ts[1]
  ELSE ts[1] \o sep \o Join(Tail(ts), sep)
\* the two scenario texts of the parser
ScenarioFull ==
  Join(<< <<"R","A","I","L","C","O","1","2","3","4","5","6","7","8","9">>,
          <<"S","A","R","6","0">>, <<"R","2","6","0","L","H","T">>,
          <<"U","I","C">>, <<"6","0">>, <<"1","8","m">> >>, <<" ">>)
ScenarioRailTwice ==
  Join(<< <<"R","2","6","0","H","T">>, <<"R","2","6","0","H","T">> >>, <<" ">>)
ParserTexts ==
  {Join(ts, sep) : ts \in UNION {[1..k -> ParserTokens] : k \in 1..MaxTokens},
                   sep \in ParserSeps}
    \cup {ScenarioFull, ScenarioRailTwice}
\* rows other clients have staged on the remote before the session
SeedRows ==
  [main |-> {},
   alt  |-> {[id |-> [k |-> "srv", n |-> 0], serial |-> <<"a","b">>,
              extras |-> EmptyExtras, cap |-> 0, origin |-> "alt",
              epoch |-> 0, via |-> "other"]}]

\* ------------------------------------------------------------------------
\* State
\* ------------------------------------------------------------------------
VARIABLES
  mode,          \* useState('main')
  showStart,     \* useState(true)
  scanMode,      \* mode closed over by the running decode callback, or "off"
  now,           \* Date.now()
  lastHitRef,    \* useRef({ serial: '', at: 0 })
  scans,         \* scansMain / scansAlt
  total,         \* totalMain / totalAlt
  serialSetRef,  \* serialSetRefMain / serialSetRefAlt
  cursor,        \* cursorMain / cursorAlt
  known,         \* knownMainRef / knownAltRef
  pending,       \* useState(null)
  qrExtras,      \* useState({grade:'',...})
  dupPrompt,     \* useState(null)
  db,            \* the IndexedDB database 'rail-offline'
  server,        \* the remote staged tables
  srvId,         \* last id the remote assigned
  bulkHealthy,   \* TRUE once the remote answers every bulk request with OK
  det,           \* onDetected calls awaiting the existence check
  conf,          \* confirmPending call in flight
  dmg,           \* saveDamaged call in flight
  flush,         \* flushBoth calls in flight
  load,          \* initial load(m) calls in flight
  nextCap,       \* captures made so far
  restarts,      \* restarts so far
  idbFaults,     \* IndexedDB requests that have failed so far
  evt,           \* the socket event delivered last, and how many have been
  removePrompt,  \* useState(null): id of the row the remove dialog asks about
  alerts,        \* what the remove and clear handlers have alerted so far
  rm,            \* confirmRemoveScan calls in flight
  clr,           \* clearAllForCurrentMode calls in flight
  qr             \* a decoded text, what parseQrPayload made of it, and what
                 \* it made of the text that result keeps

uiVars == <<mode, showStart, scanMode>>
listVars == <<scans, total, serialSetRef, cursor>>
candVars == <<pending, qrExtras, dupPrompt>>
remoteVars == <<server, srvId, bulkHealthy>>
taskVars == <<det, conf, dmg, flush, load>>
adminVars == <<removePrompt, alerts, rm, clr>>
vars == <<mode, showStart, scanMode, now, lastHitRef, scans, total,
          serialSetRef, known, pending, qrExtras, dupPrompt, db, server,
          srvId, bulkHealthy, det, conf, dmg, flush, load, nextCap, restarts,
          idbFaults, cursor, evt, removePrompt, alerts, rm, clr, qr>>

\* ------------------------------------------------------------------------
\* IndexedDB queue
\* ------------------------------------------------------------------------
NoDatabase == [s \in {} |-> 0]
EmptyStore == [items |-> {}, key |-> 0]
\* idbOpen: open at DB_VERSION, creating on upgrade the stores that are missing
idbOpen(d) ==
  [s \in Stores |-> IF s \in DOMAIN d THEN d[s] ELSE EmptyStore]
\* idbAdd: store.add(item) under the store's autoIncrement key
idbAdd(d, payload, m) ==
  LET o == idbOpen(d)
      s == storeForMode(m)
      k == o[s].key + 1
  IN  [o EXCEPT ![s] = [items |-> @.items \cup {[id |-> k, payload |-> payload]},
                         key |-> k]]
\* idbAll: store.getAll(), in key order
RECURSIVE SortById(_)
SortById(S) ==
  IF S = {} THEN <<>>
  ELSE LET x == CHOOSE y \in S : \A z \in S : y.id <= z.id
       IN  <<x>> \o SortById(S \ {x})
idbAll(d, m) == SortById(idbOpen(d)[storeForMode(m)].items)
\* faulty variant: store.clear() instead of one delete per id
idbClearStore(d, ids, m) ==
  [s \in Stores |-> IF s = storeForMode(m) THEN [items |-> {}, key |-> idbOpen(d)[s].key]
                                            ELSE idbOpen(d)[s]]
\* faulty variant: the ids are deleted from both stores
idbClearAnywhere(d, ids, m) ==
  [s \in Stores |-> [items |-> {x \in idbOpen(d)[s].items : x.id \notin ids},
                     key |-> idbOpen(d)[s].key]]
\* idbClear: store.delete(id) for each id
idbClear(d, ids, m) ==
  LET o == idbOpen(d)
      s == storeForMode(m)
  IN  [o EXCEPT ![s].items = {x \in @ : x.id \notin ids}]

\* the items of a workspace's queue, whether or not the database exists yet
QueueIn(d, m) == idbOpen(d)[storeForMode(m)].items
Queue(m) == QueueIn(db, m)
SeqToSet(q) == {q[i] : i \in 1..Len(q)}
ItemIds(q) == {q[i].id : i \in 1..Len(q)}

\* ------------------------------------------------------------------------
\* Duplicate helpers
\* ------------------------------------------------------------------------
\* the effects at app.jsx 373-382
BuildSerialSet(list) ==
  {normalizeSerial(list[i].serial) : i \in {j \in 1..Len(list) : list[j].serial # <<>>}}
RebuildSerialSets(sc) == [w \in Modes |-> BuildSerialSet(sc[w])]
\* faulty variant: the index of MAIN whatever the mode
getSerialSetRefMain(m) == serialSetRef["main"]
getSerialSetRef(m) == IF modeIsAlt(m) THEN serialSetRef["alt"] ELSE serialSetRef["main"]
getKnownRef(m) == IF modeIsAlt(m) THEN "alt" ELSE "main"
\* an entry of a known set: the serial, and (bookkeeping of the model) the
\* workspace the operator was in when it was imported or confirmed
KnownEntry(serial, m) == [serial |-> serial, by |-> m]
KnownHas(set, key) == \E e \in set : e.serial = key
isKnownDuplicate(ser, m) ==
  LET key == normalizeSerial(ser)
  IN  IF key = <<>> THEN FALSE
      ELSE key \in getSerialSetRef(m) \/ KnownHas(known[getKnownRef(m)], key)
\* scans.filter(r => normalizeSerial(r.serial) === normalizeSerial(serial)):
\* the rows of the list that carry the serial
findDuplicates(serial, m) ==
  LET Same(r) == normalizeSerial(r.serial) = normalizeSerial(serial)
  IN  SelectSeq(scans[m], Same)
\* `[info.row || { serial }]`: the one row the existence answer names
RemoteMatch(serial) == <<[serial |-> serial]>>
pushKnownForMode(kn, serial, m) ==
  [kn EXCEPT ![getKnownRef(m)] = @ \cup {KnownEntry(normalizeSerial(serial), m)}]

\* ------------------------------------------------------------------------
\* Remote persistence (the collaborator of spec section 6)
\* ------------------------------------------------------------------------
RemoteExists(w, serial) ==
  \E r \in server[w] : normalizeSerial(r.serial) = normalizeSerial(serial)
RECURSIVE NewestFirst(_)
NewestFirst(S) ==
  IF S = {} THEN <<>>
  ELSE LET x == CHOOSE y \in S : \A z \in S : y.id.n >= z.id.n
       IN  <<x>> \o NewestFirst(S \ {x})
ListRow(r) == [id |-> r.id, serial |-> r.serial, extras |-> r.extras, cap |-> r.cap]
RemotePage(w) ==
  LET all == NewestFirst(server[w])
      n == IF Len(all) < PAGE_SIZE THEN Len(all) ELSE PAGE_SIZE
  IN  [rows |-> [i \in 1..n |-> ListRow(all[i])], total |-> Len(all)]
RemoteRow(rec, n, via) ==
  [id |-> [k |-> "srv", n |-> n], serial |-> rec.serial, extras |-> rec.extras,
   cap |-> rec.cap, origin |-> rec.origin, epoch |-> rec.epoch, via |-> via]

\* ------------------------------------------------------------------------
\* Initial state: a first session on a browser that has no database yet.
\* Mounting App calls load('main'), load('alt') and flushBoth().
\* ------------------------------------------------------------------------
NoEvent == [n |-> 0, kind |-> "none", w |-> "main", id |-> [k |-> "srv", n |-> 0]]
NewFlush == [pc |-> "read", m |-> "main", items |-> <<>>, mainItems |-> <<>>]
MountFlush == <<NewFlush>>
MountLoad == [w \in Modes |-> "fetch"]

Mounted ==
  /\ mode = "main"
  /\ showStart = TRUE
  /\ scanMode = "off"
  /\ now = 0
  /\ lastHitRef = [serial |-> <<>>, at |-> 0]
  /\ scans = [w \in Modes |-> <<>>]
  /\ total = [w \in Modes |-> 0]
  /\ serialSetRef = [w \in Modes |-> {}]
  /\ known = [w \in Modes |-> {}]
  /\ pending = None
  /\ qrExtras = EmptyExtras
  /\ dupPrompt = None
  /\ db = NoDatabase
  /\ server = SeedRows
  /\ srvId = 0
  /\ bulkHealthy = FALSE
  /\ det = <<>>
  /\ conf = <<>>
  /\ dmg = <<>>
  /\ flush = MountFlush
  /\ load = MountLoad
  /\ nextCap = 0
  /\ restarts = 0
  /\ idbFaults = 0
  /\ cursor = [w \in Modes |-> None]
  /\ evt = NoEvent
  /\ removePrompt = None
  /\ alerts = <<>>
  /\ rm = <<>>
  /\ clr = <<>>
\* no text has been handed to the parser on its own
Unparsed(text) == [text |-> text, parsed |-> None, again |-> None]
Init == Mounted /\ qr = Unparsed(<<>>)

\* ------------------------------------------------------------------------
\* Helpers of the actions
\* ------------------------------------------------------------------------
RemoveAt(q, i) == SubSeq(q, 1, i - 1) \o SubSeq(q, i + 1, Len(q))
\* setScansMain / setScansAlt followed by the effect that rebuilds the index
SetScans(newScans) ==
  /\ scans' = newScans
  /\ serialSetRef' = RebuildSerialSets(newScans)
\* the modal of app.jsx 1307-1311 covers the page while a prompt is held
\* and so does the remove dialog of app.jsx 1282-1303
OperatorCanClick == ~showStart /\ dupPrompt = None /\ removePrompt = None

\* ------------------------------------------------------------------------
\* Operator navigation, scanner lifecycle, clock
\* ------------------------------------------------------------------------
\* onStartMain / onStartAlt
StartSession(m) ==
  /\ showStart
  /\ mode' = m
  /\ showStart' = FALSE
  /\ UNCHANGED <<scanMode, now, lastHitRef, listVars, known, candVars, db,
                 remoteVars, taskVars, nextCap, evt, restarts, idbFaults,
                 adminVars, qr>>
\* "Back to Start": the Scanner unmounts and its callback goes quiet
BackToStart ==
  /\ OperatorCanClick
  /\ showStart' = TRUE
  /\ scanMode' = "off"
  /\ UNCHANGED <<mode, now, lastHitRef, listVars, known, candVars, db,
                 remoteVars, taskVars, nextCap, evt, restarts, idbFaults,
                 adminVars, qr>>
\* header MAIN / ALT toggle
SetMode(m) ==
  /\ OperatorCanClick
  /\ m # mode
  /\ mode' = m
  /\ UNCHANGED <<showStart, scanMode, now, lastHitRef, listVars, known,
                 candVars, db, remoteVars, taskVars, nextCap, evt, restarts, idbFaults,
                 adminVars, qr>>
\* startScanner registers a decode callback that closes over the onDetected
\* of the render in which it was clicked
StartScanner ==
  /\ OperatorCanClick
  /\ scanMode = "off"
  /\ scanMode' = mode
  /\ UNCHANGED <<mode, showStart, now, lastHitRef, listVars, known, candVars,
                 db, remoteVars, taskVars, nextCap, evt, restarts, idbFaults,
                 adminVars, qr>>
StopScanner ==
  /\ OperatorCanClick
  /\ scanMode # "off"
  /\ scanMode' = "off"
  /\ UNCHANGED <<mode, showStart, now, lastHitRef, listVars, known, candVars,
                 db, remoteVars, taskVars, nextCap, evt, restarts, idbFaults,
                 adminVars, qr>>
Tick ==
  /\ now < MaxTicks * TickMs
  /\ now' = now + TickMs
  /\ UNCHANGED <<uiVars, lastHitRef, listVars, known, candVars, db,
                 remoteVars, taskVars, nextCap, evt, restarts, idbFaults,
                 adminVars, qr>>

\* ------------------------------------------------------------------------
\* onDetected
\* ------------------------------------------------------------------------
DetectedSerialKey(rawText) ==
  LET parsed == parseQrPayload(rawText)
  IN  normalizeSerial(Trim(IF parsed.serial # <<>> THEN parsed.serial ELSE rawText))
DetectedCandidate(rawText, cap) ==
  LET parsed == parseQrPayload(rawText)
  IN  [pending |-> [serial |-> DetectedSerialKey(rawText),
                    raw |-> IF parsed.raw # <<>> THEN parsed.raw ELSE rawText,
                    capturedAt |-> cap, continued |-> FALSE, check |-> "none"],
       qrExtras |-> [grade |-> parsed.grade, railType |-> parsed.railType,
                     spec |-> parsed.spec, lengthM |-> parsed.lengthM]]
\* faulty variant: the window is not looked at
DebouncedNever(serialKey) ==
  lastHitRef.serial = serialKey /\ now - lastHitRef.at < 0
Debounced(serialKey) ==
  lastHitRef.serial = serialKey /\ now - lastHitRef.at < DebounceMs

\* what the existence request brought: "failed" for a rejected fetch or a
\* response that is not OK, else what the remote says (the answer is kept
\* with the candidate as bookkeeping of the model)
ExistsAnswer(answered, w, serial) ==
  IF ~answered THEN "failed"
  ELSE IF RemoteExists(w, serial) THEN "exists" ELSE "absent"
\* faulty variant: a check that failed counts as a duplicate
HoldOnUnlessAbsent(answer) == answer # "absent"
\* `if (r.ok) { ... if (j?.exists) {`: only an answered check that reports
\* the serial holds the candidate
HoldOn(answer) == answer = "exists"

\* `return` after the prompt: only a serial that is no local duplicate goes
\* on to the remote existence check
DetectGoesOn(isDup, m, cand) ==
  IF isDup THEN det ELSE Append(det, [m |-> m, cand |-> cand])

\* the synchronous part: parse, debounce, local duplicate check, then either
\* the prompt or the remote existence request
DetectStart(rawText) ==
  LET serialKey == DetectedSerialKey(rawText)
      cand == DetectedCandidate(rawText, nextCap + 1)
  IN  /\ scanMode # "off"
      /\ nextCap < MaxCaps
      /\ serialKey # <<>>
      /\ ~Debounced(serialKey)
      /\ lastHitRef' = [serial |-> serialKey, at |-> now]
      /\ nextCap' = nextCap + 1
      /\ IF isKnownDuplicate(serialKey, scanMode)
           THEN dupPrompt' = Some([serial |-> serialKey, candidate |-> cand,
                                   matches |-> findDuplicates(serialKey, scanMode),
                                   via |-> "scan", check |-> "local"])
           ELSE dupPrompt' = dupPrompt
      /\ Len(DetectGoesOn(isKnownDuplicate(serialKey, scanMode), scanMode, cand)) <= MaxDet
      /\ det' = DetectGoesOn(isKnownDuplicate(serialKey, scanMode), scanMode, cand)
      /\ UNCHANGED <<uiVars, now, listVars, known, pending, qrExtras, db,
                     remoteVars, conf, dmg, flush, load, restarts, idbFaults, evt,
                 adminVars, qr>>
\* the existence response (or its failure) arrives
DetectExistsResp(i, answered) ==
  LET t == det[i]
      answer == ExistsAnswer(answered, endpointExists(t.m), t.cand.pending.serial)
  IN  /\ det' = RemoveAt(det, i)
      /\ IF HoldOn(answer)
           THEN /\ dupPrompt' = Some([serial |-> t.cand.pending.serial,
                                      candidate |-> t.cand, via |-> "scan",
                                      matches |-> RemoteMatch(t.cand.pending.serial),
                                      check |-> answer])
                /\ UNCHANGED <<pending, qrExtras>>
           ELSE /\ pending' = Some([t.cand.pending EXCEPT !.check = answer])
                /\ qrExtras' = t.cand.qrExtras
                /\ dupPrompt' = dupPrompt
      /\ UNCHANGED <<uiVars, now, lastHitRef, listVars, known, db, remoteVars,
                     conf, dmg, flush, load, nextCap, evt, restarts, idbFaults,
                 adminVars, qr>>

\* (capturedAt stands for the capture's timestamp: the number of the capture;
\* continued is bookkeeping of the model: the operator chose "Continue anyway"
\* for this candidate)

\* ------------------------------------------------------------------------
\* Duplicate prompt and discard
\* ------------------------------------------------------------------------
handleDupDiscard ==
  /\ ~showStart
  /\ dupPrompt # None
  /\ dupPrompt' = None
  /\ pending' = None
  /\ qrExtras' = EmptyExtras
  /\ UNCHANGED <<uiVars, now, lastHitRef, listVars, known, db, remoteVars,
                 taskVars, nextCap, evt, restarts, idbFaults,
                 adminVars, qr>>
handleDupContinue ==
  /\ ~showStart
  /\ dupPrompt # None
  /\ pending' = Some([dupPrompt[1].candidate.pending EXCEPT !.continued = TRUE])
  /\ qrExtras' = dupPrompt[1].candidate.qrExtras
  /\ dupPrompt' = None
  /\ UNCHANGED <<uiVars, now, lastHitRef, listVars, known, db, remoteVars,
                 taskVars, nextCap, evt, restarts, idbFaults,
                 adminVars, qr>>
\* faulty variant: the Discard button also files the candidate in the queue
DiscardPendingEnqueues ==
  /\ OperatorCanClick
  /\ pending # None
  /\ pending' = None
  /\ qrExtras' = EmptyExtras
  /\ db' = idbAdd(db, [serial |-> pending[1].serial, extras |-> qrExtras,
                        qrRaw |-> pending[1].raw, cap |-> pending[1].capturedAt,
                        origin |-> mode, epoch |-> restarts], mode)
  /\ UNCHANGED <<uiVars, now, lastHitRef, listVars, known, dupPrompt,
                 remoteVars, taskVars, nextCap, evt, restarts, idbFaults,
                 adminVars, qr>>
\* the Discard button under the review form
DiscardPending ==
  /\ OperatorCanClick
  /\ pending # None
  /\ pending' = None
  /\ qrExtras' = EmptyExtras
  /\ UNCHANGED <<uiVars, now, lastHitRef, listVars, known, dupPrompt, db,
                 remoteVars, taskVars, nextCap, evt, restarts, idbFaults,
                 adminVars, qr>>

\* ------------------------------------------------------------------------
\* confirmPending and saveDamaged
\* ------------------------------------------------------------------------
\* the record both handlers post; cap, origin and epoch are bookkeeping of the
\* model: which capture it is, the workspace it was confirmed in, and the
\* session (restart count) it was confirmed in
BuildRec(serial, extras, qrRaw, cap, m) ==
  [serial |-> serial, extras |-> extras, qrRaw |-> qrRaw, cap |-> cap,
   origin |-> m, epoch |-> restarts]
LocalRow(id, rec) ==
  [id |-> id, serial |-> rec.serial, extras |-> rec.extras, cap |-> rec.cap]
\* faulty variant: the new row is put behind the rows already listed
StageAtTail(id, rec, m) ==
  /\ SetScans([scans EXCEPT ![m] = @ \o <<LocalRow(id, rec)>>])
  /\ total' = [total EXCEPT ![m] = @ + 1]
  /\ cursor' = cursor
  /\ known' = pushKnownForMode(known, rec.serial, m)
\* setScans(prev => [{id, ...rec}, ...prev]); setTotalCount(c => c + 1);
\* pushKnownForMode(rec.serial), all of the mode the handler closed over
StageLocally(id, rec, m) ==
  /\ SetScans([scans EXCEPT ![m] = <<LocalRow(id, rec)>> \o @])
  /\ total' = [total EXCEPT ![m] = @ + 1]
  /\ cursor' = cursor
  /\ known' = pushKnownForMode(known, rec.serial, m)
\* the remote accepts POST /scan or /scan-alt
RemoteAccept(rec, m) ==
  /\ server' = [server EXCEPT ![endpointScan(m)] =
                  @ \cup {RemoteRow(rec, srvId + 1, "scan")}]
  /\ srvId' = srvId + 1
  /\ bulkHealthy' = bulkHealthy
\* faulty variant: the catch block stages locally without the idbAdd
EnqueueSkipped(rec, m) == db' = db
\* the failed submit falls back to the queue of the handler's mode
Enqueue(rec, m) == db' = idbAdd(db, rec, m)

\* faulty variant: the `return` after the prompt is missing
ConfirmGoesOnAnyway(isDup) ==
  Append(conf, [pc |-> "exists", m |-> mode,
                pending |-> pending[1], qrExtras |-> qrExtras])
\* `return` after the prompt in confirmPending
ConfirmGoesOn(isDup) ==
  IF isDup THEN conf
  ELSE Append(conf, [pc |-> "exists", m |-> mode,
                     pending |-> pending[1], qrExtras |-> qrExtras])

\* click on Confirm & Save: guard, local duplicate check, existence request;
\* the buttons are disabled only while nothing is pending, so a click is
\* possible while earlier calls are under way (limit bounds how many)
ConfirmClick(limit) ==
  /\ OperatorCanClick
  /\ pending # None
  /\ Trim(pending[1].serial) # <<>>
  /\ IF isKnownDuplicate(pending[1].serial, mode)
       THEN dupPrompt' = Some([serial |-> ToUpperCase(pending[1].serial),
                               candidate |-> [pending |-> pending[1],
                                              qrExtras |-> qrExtras],
                               matches |-> findDuplicates(pending[1].serial, mode),
                               via |-> "confirm", check |-> "local"])
       ELSE dupPrompt' = dupPrompt
  /\ Len(ConfirmGoesOn(isKnownDuplicate(pending[1].serial, mode))) <= limit
  /\ conf' = ConfirmGoesOn(isKnownDuplicate(pending[1].serial, mode))
  /\ UNCHANGED <<uiVars, now, lastHitRef, listVars, known, pending, qrExtras,
                 db, remoteVars, det, dmg, flush, load, nextCap, evt, restarts, idbFaults,
                 adminVars, qr>>
ConfirmStart == ConfirmClick(MaxConf)
\* the re-verification response: hold on a duplicate, else post the record
ConfirmExistsResp(i, answered) ==
  LET t == conf[i]
      p == t.pending
      answer == ExistsAnswer(answered, endpointExists(t.m), p.serial)
      rec == BuildRec(Trim(p.serial), t.qrExtras,
                      IF p.raw # <<>> THEN p.raw ELSE p.serial, p.capturedAt, t.m)
  IN  /\ t.pc = "exists"
      /\ IF HoldOn(answer)
           THEN /\ dupPrompt' = Some([serial |-> p.serial,
                                      candidate |-> [pending |-> p,
                                                     qrExtras |-> t.qrExtras],
                                      matches |-> RemoteMatch(p.serial),
                                      via |-> "confirm", check |-> answer])
                /\ conf' = RemoveAt(conf, i)
           ELSE /\ conf' = [conf EXCEPT ![i] = [pc |-> "submit", m |-> t.m,
                                                rec |-> rec, check |-> answer]]
                /\ dupPrompt' = dupPrompt
      /\ UNCHANGED <<uiVars, now, lastHitRef, listVars, known, pending, qrExtras,
                     db, remoteVars, det, dmg, flush, load, nextCap, evt, restarts, idbFaults,
                 adminVars, qr>>
\* the POST reaches the remote, which stores the row and answers with its
\* id (ok), or the request fails or is refused and the catch block begins
ConfirmSubmitSent(i, ok) ==
  LET t == conf[i]
  IN  /\ t.pc = "submit"
      /\ IF ok
           THEN /\ RemoteAccept(t.rec, t.m)
                /\ conf' = [conf EXCEPT ![i] = [pc |-> "accepted", m |-> t.m,
                                                rec |-> t.rec, id |-> srvId + 1]]
           ELSE /\ conf' = [conf EXCEPT ![i] = [pc |-> "idbAdd", m |-> t.m,
                                                rec |-> t.rec]]
                /\ UNCHANGED remoteVars
      /\ UNCHANGED <<uiVars, now, lastHitRef, listVars, known, candVars, db,
                     det, dmg, flush, load, nextCap, evt, restarts, idbFaults,
                 adminVars, qr>>
\* the OK response is processed
ConfirmSubmitResp(i) ==
  LET t == conf[i]
  IN  /\ t.pc = "accepted"
      /\ StageLocally([k |-> "srv", n |-> t.id], t.rec, t.m)
      /\ pending' = None
      /\ qrExtras' = EmptyExtras
      /\ conf' = RemoveAt(conf, i)
      /\ UNCHANGED <<uiVars, now, lastHitRef, dupPrompt, db, remoteVars, det,
                     dmg, flush, load, nextCap, evt, restarts, idbFaults,
                 adminVars, qr>>
\* `await idbAdd` resolves: the optimistic local commit
ConfirmIdbAdd(i) ==
  LET t == conf[i]
  IN  /\ t.pc = "idbAdd"
      /\ conf' = RemoveAt(conf, i)
      /\ Enqueue(t.rec, t.m)
      /\ StageLocally([k |-> "tmp", n |-> now], t.rec, t.m)
      /\ pending' = None
      /\ qrExtras' = EmptyExtras
      /\ UNCHANGED <<uiVars, now, lastHitRef, dupPrompt, remoteVars, det, dmg,
                     flush, load, nextCap, evt, restarts, idbFaults,
                 adminVars, qr>>
\* faulty variant: the rejection is swallowed and the catch block goes on
EnqueueRejectedGoesOn(rec, m) ==
  /\ StageLocally([k |-> "tmp", n |-> now], rec, m)
  /\ pending' = None
  /\ qrExtras' = EmptyExtras
  /\ UNCHANGED <<dupPrompt, db>>
\* the promise of idbAdd rejects (tx.onerror, or idbOpen fails): the
\* transaction stores nothing, and the exception leaves the catch block of
\* confirmPending before setScans, setTotalCount, pushKnownForMode,
\* setPending and setQrExtras
EnqueueRejected(rec, m) == UNCHANGED <<listVars, known, candVars, db>>
\* `await idbAdd` rejects (open or transaction error): the handler ends with
\* the exception, nothing after the await runs
ConfirmIdbFault(i) ==
  /\ conf[i].pc = "idbAdd"
  /\ idbFaults < MaxIdbFaults
  /\ idbFaults' = idbFaults + 1
  /\ conf' = RemoveAt(conf, i)
  /\ EnqueueRejected(conf[i].rec, conf[i].m)
  /\ UNCHANGED <<uiVars, now, lastHitRef, remoteVars, det, dmg, flush, load,
                 nextCap, evt, restarts, adminVars, qr>>

\* faulty variant: the `return` after the prompt is missing
DamagedGoesOnAnyway(isDup, m, serialKey, cap) ==
  Append(dmg, [pc |-> "exists", m |-> m,
               rec |-> BuildRec(serialKey, FIXED_DAMAGED, serialKey, cap, m)])
\* `return` after the prompt in saveDamaged
DamagedGoesOn(isDup, m, serialKey, cap) ==
  IF isDup THEN dmg
  ELSE Append(dmg, [pc |-> "exists", m |-> m,
                    rec |-> BuildRec(serialKey, FIXED_DAMAGED, serialKey, cap, m)])

\* Save Damaged QR with the serial typed into the form
DamagedStart(manualSerial) ==
  LET serialKey == normalizeSerial(manualSerial)
      cap == nextCap + 1
  IN  /\ OperatorCanClick
      /\ nextCap < MaxCaps
      /\ Trim(manualSerial) # <<>>
      /\ nextCap' = cap
      /\ IF isKnownDuplicate(serialKey, mode)
           THEN dupPrompt' =
                     Some([serial |-> serialKey,
                           candidate |-> [pending |-> [serial |-> serialKey,
                                                       raw |-> serialKey,
                                                       capturedAt |-> cap,
                                                       continued |-> FALSE,
                                                       check |-> "none"],
                                          qrExtras |-> FIXED_DAMAGED],
                           matches |-> findDuplicates(serialKey, mode),
                           via |-> "manual", check |-> "local"])
           ELSE dupPrompt' = dupPrompt
      /\ Len(DamagedGoesOn(isKnownDuplicate(serialKey, mode), mode, serialKey, cap)) <= MaxDmg
      /\ dmg' = DamagedGoesOn(isKnownDuplicate(serialKey, mode), mode, serialKey, cap)
      /\ UNCHANGED <<uiVars, now, lastHitRef, listVars, known, pending, qrExtras,
                     db, remoteVars, det, conf, flush, load, restarts, idbFaults, evt,
                 adminVars, qr>>
\* existence response; on a remote duplicate window.confirm asks the operator
DamagedExistsResp(i, answered, saveAnyway) ==
  LET t == dmg[i]
      exists == answered /\ RemoteExists(endpointExists(t.m), t.rec.serial)
  IN  /\ t.pc = "exists"
      /\ exists \/ saveAnyway
      /\ dmg' = IF exists /\ ~saveAnyway
                  THEN RemoveAt(dmg, i)
                  ELSE [dmg EXCEPT ![i].pc = "submit"]
      /\ UNCHANGED <<uiVars, now, lastHitRef, listVars, known, candVars, db,
                     remoteVars, det, conf, flush, load, nextCap, evt, restarts, idbFaults,
                 adminVars, qr>>
DamagedSubmitSent(i, ok) ==
  LET t == dmg[i]
  IN  /\ t.pc = "submit"
      /\ IF ok
           THEN /\ RemoteAccept(t.rec, t.m)
                /\ dmg' = [dmg EXCEPT ![i] = [pc |-> "accepted", m |-> t.m,
                                              rec |-> t.rec, id |-> srvId + 1]]
           ELSE /\ dmg' = [dmg EXCEPT ![i].pc = "idbAdd"]
                /\ UNCHANGED remoteVars
      /\ UNCHANGED <<uiVars, now, lastHitRef, listVars, known, candVars, db,
                     det, conf, flush, load, nextCap, evt, restarts, idbFaults,
                 adminVars, qr>>
DamagedSubmitResp(i) ==
  LET t == dmg[i]
  IN  /\ t.pc = "accepted"
      /\ StageLocally([k |-> "srv", n |-> t.id], t.rec, t.m)
      /\ dmg' = RemoveAt(dmg, i)
      /\ UNCHANGED <<uiVars, now, lastHitRef, candVars, db, remoteVars, det,
                     conf, flush, load, nextCap, evt, restarts, idbFaults,
                 adminVars, qr>>
DamagedIdbAdd(i) ==
  LET t == dmg[i]
  IN  /\ t.pc = "idbAdd"
      /\ dmg' = RemoveAt(dmg, i)
      /\ Enqueue(t.rec, t.m)
      /\ StageLocally([k |-> "tmp", n |-> now], t.rec, t.m)
      /\ UNCHANGED <<uiVars, now, lastHitRef, candVars, remoteVars, det, conf,
                     flush, load, nextCap, evt, restarts, idbFaults,
                 adminVars, qr>>
DamagedIdbFault(i) ==
  /\ dmg[i].pc = "idbAdd"
  /\ idbFaults < MaxIdbFaults
  /\ idbFaults' = idbFaults + 1
  /\ dmg' = RemoveAt(dmg, i)
  /\ UNCHANGED <<uiVars, now, lastHitRef, listVars, known, candVars, db,
                 remoteVars, det, conf, flush, load, nextCap, evt, restarts,
                 adminVars, qr>>

\* handleImportKnown: the serials of the file join the known set of the mode
ImportKnown(serials) ==
  /\ OperatorCanClick
  /\ known' = [known EXCEPT ![getKnownRef(mode)] =
                 @ \cup {KnownEntry(normalizeSerial(x), mode) :
                            x \in {y \in serials : normalizeSerial(y) # <<>>}}]
  /\ known' # known
  /\ UNCHANGED <<uiVars, now, lastHitRef, listVars, candVars, db, remoteVars,
                 taskVars, nextCap, evt, restarts, idbFaults,
                 adminVars, qr>>

\* ------------------------------------------------------------------------
\* Queue flush: flushBoth = flushQueueForMode('main'); flushQueueForMode('alt')
\* ------------------------------------------------------------------------
\* faulty variant: flushBoth returns after 'main'
FlushNextMainOnly(i) == RemoveAt(flush, i)
\* the call moves on: after 'main' comes 'alt', after 'alt' flushBoth returns
\* (mainItems remembers, for the properties, what the call read for 'main')
FlushNext(i) ==
  IF flush[i].m = "main"
    THEN [flush EXCEPT ![i] = [pc |-> "read", m |-> "alt", items |-> <<>>,
                               mainItems |-> flush[i].items]]
    ELSE RemoveAt(flush, i)
\* faulty variant: the response status is not looked at
FlushAfterBulkUnchecked(i, ok) == [flush EXCEPT ![i].pc = "clear"]
\* `if (resp.ok)`: only an OK response leads to idbClear and the reload
FlushAfterBulk(i, ok) ==
  IF ok THEN [flush EXCEPT ![i].pc = "clear"] ELSE FlushNext(i)
\* the rows a bulk request of these items adds to the remote table
BulkRows(items) ==
  {RemoteRow(items[j].payload, srvId + j, "bulk") : j \in 1..Len(items)}

\* the remote recovers: from here on every bulk request is answered OK
RemoteRecovers ==
  /\ ~bulkHealthy
  /\ bulkHealthy' = TRUE
  /\ UNCHANGED <<uiVars, now, lastHitRef, listVars, known, candVars, db, server,
                 srvId, taskVars, nextCap, evt, restarts, idbFaults,
                 adminVars, qr>>
\* window 'online' event
OnlineEvent ==
  /\ Len(flush) < MaxFlush
  /\ flush' = Append(flush, NewFlush)
  /\ UNCHANGED <<uiVars, now, lastHitRef, listVars, known, candVars, db,
                 remoteVars, det, conf, dmg, load, nextCap, evt, restarts, idbFaults,
                 adminVars, qr>>
\* `await idbAll(m)` settles; a non-empty result is posted in one request
FlushRead(i) ==
  LET t == flush[i]
      items == idbAll(db, t.m)
  IN  /\ t.pc = "read"
      /\ db' = idbOpen(db)
      /\ flush' = IF Len(items) = 0
                    THEN FlushNext(i)
                    ELSE [flush EXCEPT ![i].pc = "post", ![i].items = items]
      /\ UNCHANGED <<uiVars, now, lastHitRef, listVars, known, candVars,
                     remoteVars, det, conf, dmg, load, nextCap, evt, restarts, idbFaults,
                 adminVars, qr>>
\* the bulk response (ok), or a thrown fetch / non-OK response (~ok)
FlushBulkResp(i, ok) ==
  LET t == flush[i]
  IN  /\ t.pc = "post"
      /\ ok \/ ~bulkHealthy
      /\ flush' = FlushAfterBulk(i, ok)
      /\ IF ok
           THEN /\ server' = [server EXCEPT ![bulkPath(t.m)] = @ \cup BulkRows(t.items)]
                /\ srvId' = srvId + Len(t.items)
                /\ bulkHealthy' = bulkHealthy
           ELSE UNCHANGED remoteVars
      /\ UNCHANGED <<uiVars, now, lastHitRef, listVars, known, candVars, db,
                     det, conf, dmg, load, nextCap, evt, restarts, idbFaults,
                 adminVars, qr>>
\* `await idbClear(items.map(x => x.id), m)` settles, then the reload is sent
FlushClear(i) ==
  LET t == flush[i]
  IN  /\ t.pc = "clear"
      /\ db' = idbClear(db, ItemIds(t.items), t.m)
      /\ flush' = [flush EXCEPT ![i].pc = "reload"]
      /\ UNCHANGED <<uiVars, now, lastHitRef, listVars, known, candVars,
                     remoteVars, det, conf, dmg, load, nextCap, evt, restarts, idbFaults,
                 adminVars, qr>>
\* idbAll or idbClear rejects: the catch of flushQueueForMode logs it and the
\* call moves on with the queue as it is
FlushIdbFault(i) ==
  /\ flush[i].pc \in {"read", "clear"}
  /\ idbFaults < MaxIdbFaults
  /\ idbFaults' = idbFaults + 1
  /\ flush' = FlushNext(i)
  /\ UNCHANGED <<uiVars, now, lastHitRef, listVars, known, candVars, db,
                 remoteVars, det, conf, dmg, load, nextCap, evt, restarts,
                 adminVars, qr>>
\* the count and page responses: "page" is a JSON page, "empty" a body that
\* does not parse or carries no rows, "throw" a rejected fetch
ReloadOutcomes == {"page", "empty", "throw"}
\* "more" is a JSON page that ends with a cursor: the table goes on with
\* older rows than the ones the model follows
PagedOutcomes == ReloadOutcomes \cup {"more"}
ApplyPage(w, outcome) ==
  IF outcome = "throw"
    THEN UNCHANGED listVars
    ELSE LET page == IF outcome \in {"page", "more"}
                       THEN RemotePage(endpointStaged(w))
                       ELSE [rows |-> <<>>, total |-> 0]
         IN  /\ SetScans([scans EXCEPT ![w] = page.rows])
             /\ total' = [total EXCEPT ![w] = page.total]
             /\ cursor' = [cursor EXCEPT ![w] =
                             IF outcome = "more" THEN Some("older") ELSE None]
FlushReloadResp(i, outcome) ==
  LET t == flush[i]
  IN  /\ t.pc = "reload"
      /\ ApplyPage(t.m, outcome)
      /\ flush' = FlushNext(i)
      /\ UNCHANGED <<uiVars, now, lastHitRef, known, candVars, db, remoteVars,
                     det, conf, dmg, load, nextCap, evt, restarts, idbFaults,
                 adminVars, qr>>

\* ------------------------------------------------------------------------
\* Initial load and restart
\* ------------------------------------------------------------------------
LoadResp(w, outcome) ==
  /\ load[w] = "fetch"
  /\ load' = [load EXCEPT ![w] = "done"]
  /\ ApplyPage(w, outcome)
  /\ UNCHANGED <<uiVars, now, lastHitRef, known, candVars, db, remoteVars,
                 det, conf, dmg, flush, nextCap, evt, restarts, idbFaults,
                 adminVars, qr>>
\* the page is closed and opened again: memory starts over, the database and
\* the remote stay, requests in flight are abandoned
Restart ==
  /\ restarts < MaxRestarts
  /\ restarts' = restarts + 1
  /\ mode' = "main"
  /\ showStart' = TRUE
  /\ scanMode' = "off"
  /\ lastHitRef' = [serial |-> <<>>, at |-> 0]
  /\ scans' = [w \in Modes |-> <<>>]
  /\ total' = [w \in Modes |-> 0]
  /\ serialSetRef' = [w \in Modes |-> {}]
  /\ cursor' = [w \in Modes |-> None]
  /\ known' = [w \in Modes |-> {}]
  /\ pending' = None
  /\ qrExtras' = EmptyExtras
  /\ dupPrompt' = None
  /\ det' = <<>>
  /\ conf' = <<>>
  /\ dmg' = <<>>
  /\ flush' = MountFlush
  /\ load' = MountLoad
  /\ UNCHANGED <<now, db, remoteVars, nextCap, evt, idbFaults, qr>>
  /\ removePrompt' = None
  /\ rm' = <<>>
  /\ clr' = <<>>
  /\ alerts' = alerts

\* ------------------------------------------------------------------------
\* Live sync: the socket handlers of both workspaces (w is "main" for onNew,
\* onDeleted, onCleared and "alt" for onNewAlt, onDeletedAlt, onClearedAlt)
\* ------------------------------------------------------------------------
\* faulty variant: the handlers write the state of the workspace on screen
handlerStateActive(w) == mode
\* onNew writes scansMain / totalMain, onNewAlt scansAlt / totalAlt, and so
\* for the other two pairs
handlerState(w) == w
\* faulty variant: nothing counts as listed
AlreadyListedNever(prev, row) == FALSE
\* hasId || hasSerial
AlreadyListed(prev, row) ==
  \/ \E i \in 1..Len(prev) : prev[i].id = row.id
  \/ /\ row.serial # <<>>
     /\ \E i \in 1..Len(prev) :
          normalizeSerial(prev[i].serial) = normalizeSerial(row.serial)
\* prev.filter(x => String(x.id) !== String(id))
RECURSIVE WithoutId(_, _)
WithoutId(prev, id) ==
  IF prev = <<>> THEN <<>>
  ELSE IF Head(prev).id = id THEN WithoutId(Tail(prev), id)
  ELSE <<Head(prev)>> \o WithoutId(Tail(prev), id)
\* faulty variant: the count is lowered whether or not a row went
CountAfterDeleteAlways(c, removed) == IF c - 1 > 0 THEN c - 1 ELSE 0
\* if (next.length !== before) setTotal(c => Math.max(0, c - 1))
CountAfterDelete(c, removed) ==
  IF removed THEN (IF c - 1 > 0 THEN c - 1 ELSE 0) ELSE c
\* faulty variant: the cursor survives the clearing
CursorAfterClearKept(c, w) == c
\* setCursorMain(null) / setCursorAlt(null)
CursorAfterClear(c, w) == [c EXCEPT ![w] = None]
\* ids the remote has handed out so far
EventIds == {[k |-> "srv", n |-> n] : n \in 0..srvId}
Delivered(kind, w, id) ==
  /\ evt.n < MaxEvents
  /\ evt' = [n |-> evt.n + 1, kind |-> kind, w |-> w, id |-> id]

\* 'new-scan' / 'new-scan-alt' for a row of the table, delivered once or again
onNew(w, r) ==
  LET row == ListRow(r)
      v == handlerState(w)
  IN  /\ Delivered("new", w, r.id)
      /\ SetScans([scans EXCEPT ![v] =
                     IF AlreadyListed(@, row) THEN @ ELSE <<row>> \o @])
      /\ total' = [total EXCEPT ![v] = @ + 1]
      /\ cursor' = cursor
      /\ UNCHANGED <<uiVars, now, lastHitRef, known, candVars, db, remoteVars,
                     taskVars, nextCap, restarts, idbFaults,
                 adminVars, qr>>
\* the row with this id has been removed from the table by some client
RemoteDelete(w, id) ==
  /\ server' = [server EXCEPT ![w] = {r \in @ : r.id # id}]
  /\ UNCHANGED <<srvId, bulkHealthy>>
\* 'deleted-scan' / 'deleted-scan-alt'
onDeleted(w, id) ==
  LET v == handlerState(w)
      next == WithoutId(scans[v], id)
  IN  /\ Delivered("deleted", w, id)
      /\ RemoteDelete(w, id)
      /\ SetScans([scans EXCEPT ![v] = next])
      /\ total' = [total EXCEPT ![v] =
                     CountAfterDelete(@, Len(next) # Len(scans[v]))]
      /\ cursor' = cursor
      /\ UNCHANGED <<uiVars, now, lastHitRef, known, candVars, db, taskVars,
                     nextCap, restarts, idbFaults,
                 adminVars, qr>>
\* the table has been emptied by some client
RemoteClear(w) ==
  /\ server' = [server EXCEPT ![w] = {}]
  /\ UNCHANGED <<srvId, bulkHealthy>>
\* 'cleared-scans' / 'cleared-scans-alt'
onCleared(w) ==
  LET v == handlerState(w)
  IN  /\ Delivered("cleared", w, [k |-> "srv", n |-> 0])
      /\ RemoteClear(w)
      /\ SetScans([scans EXCEPT ![v] = <<>>])
      /\ total' = [total EXCEPT ![v] = 0]
      /\ cursor' = CursorAfterClear(cursor, v)
      /\ UNCHANGED <<uiVars, now, lastHitRef, known, candVars, db, taskVars,
                     nextCap, restarts, idbFaults,
                 adminVars, qr>>

\* ------------------------------------------------------------------------
\* Remove one row, clear a workspace
\* ------------------------------------------------------------------------
\* click on Remove in the row of scanId
handleRemoveScan(scanId) ==
  /\ OperatorCanClick
  /\ Len(alerts) < MaxAlerts
  /\ \E i \in 1..Len(scans[mode]) : scans[mode][i].id = scanId
  /\ removePrompt' = Some(scanId)
  /\ UNCHANGED <<uiVars, now, lastHitRef, listVars, known, candVars, db,
                 remoteVars, taskVars, nextCap, evt, restarts, idbFaults,
                 alerts, rm, clr, qr>>
\* Cancel in the remove dialog
discardRemovePrompt ==
  /\ ~showStart
  /\ dupPrompt = None
  /\ removePrompt # None
  /\ removePrompt' = None
  /\ UNCHANGED <<uiVars, now, lastHitRef, listVars, known, candVars, db,
                 remoteVars, taskVars, nextCap, evt, restarts, idbFaults,
                 alerts, rm, clr, qr>>
\* Confirm in the remove dialog: guard, then the DELETE request is sent
RemoveStart ==
  /\ ~showStart
  /\ dupPrompt = None
  /\ removePrompt # None
  /\ Len(rm) < MaxRemove
  /\ rm' = Append(rm, [pc |-> "delete", m |-> mode, id |-> removePrompt[1]])
  /\ UNCHANGED <<uiVars, now, lastHitRef, listVars, known, candVars, db,
                 remoteVars, taskVars, nextCap, evt, restarts, idbFaults,
                 removePrompt, alerts, clr, qr>>
\* faulty variant: the row leaves the list although the request failed
RemoveFailedDropsRow(m, id) ==
  /\ SetScans([scans EXCEPT ![m] = WithoutId(@, id)])
  /\ UNCHANGED <<total, cursor>>
\* catch block of confirmRemoveScan: no setter of the list is called
RemoveFailed(m, id) == UNCHANGED listVars
\* the DELETE reaches the remote, which removes the row and answers OK, or
\* the request fails or is refused: alert, dialog closed
RemoveSent(i, ok) ==
  LET t == rm[i]
  IN  /\ t.pc = "delete"
      /\ IF ok
           THEN /\ RemoteDelete(endpointStaged(t.m), t.id)
                /\ rm' = [rm EXCEPT ![i].pc = "accepted"]
                /\ UNCHANGED <<listVars, removePrompt, alerts>>
           ELSE /\ RemoveFailed(t.m, t.id)
                /\ alerts' = Append(alerts, "Failed to remove scan")
                /\ removePrompt' = None
                /\ rm' = RemoveAt(rm, i)
                /\ UNCHANGED remoteVars
      /\ UNCHANGED <<uiVars, now, lastHitRef, known, candVars, db, taskVars,
                     nextCap, evt, restarts, idbFaults, clr, qr>>
\* the OK response is processed
RemoveResp(i) ==
  LET t == rm[i]
  IN  /\ t.pc = "accepted"
      /\ SetScans([scans EXCEPT ![t.m] = WithoutId(@, t.id)])
      /\ total' = [total EXCEPT ![t.m] = IF @ - 1 > 0 THEN @ - 1 ELSE 0]
      /\ cursor' = cursor
      /\ removePrompt' = None
      /\ rm' = RemoveAt(rm, i)
      /\ UNCHANGED <<uiVars, now, lastHitRef, known, candVars, db, remoteVars,
                     taskVars, nextCap, evt, restarts, idbFaults, alerts, clr, qr>>
\* what the operator types into window.prompt (Cancel ends the handler
\* before anything happens)
Passwords == {"right", "wrong"}
\* click on Clear: password, then the POST is sent
ClearStart(pw) ==
  /\ OperatorCanClick
  /\ Len(alerts) < MaxAlerts
  /\ IF pw = "right"
       THEN /\ Len(clr) < MaxClear
            /\ clr' = Append(clr, [pc |-> "post", m |-> mode])
            /\ alerts' = alerts
       ELSE /\ alerts' = Append(alerts, "Incorrect password.")
            /\ clr' = clr
  /\ UNCHANGED <<uiVars, now, lastHitRef, listVars, known, candVars, db,
                 remoteVars, taskVars, nextCap, evt, restarts, idbFaults,
                 removePrompt, rm, qr>>
\* catch block of clearAllForCurrentMode: no setter of the list is called
ClearFailed(m) == UNCHANGED listVars
\* the POST reaches the remote, which empties the table and answers OK, or
\* the request fails or is refused: alert
ClearSent(i, ok) ==
  LET t == clr[i]
  IN  /\ t.pc = "post"
      /\ IF ok
           THEN /\ RemoteClear(endpointStaged(t.m))
                /\ clr' = [clr EXCEPT ![i].pc = "accepted"]
                /\ UNCHANGED <<listVars, alerts>>
           ELSE /\ ClearFailed(t.m)
                /\ alerts' = Append(alerts, "Failed to clear scans")
                /\ clr' = RemoveAt(clr, i)
                /\ UNCHANGED remoteVars
      /\ UNCHANGED <<uiVars, now, lastHitRef, known, candVars, db, taskVars,
                     nextCap, evt, restarts, idbFaults, removePrompt, rm, qr>>
\* the OK response is processed
ClearResp(i) ==
  LET t == clr[i]
      v == IF modeIsAlt(t.m) THEN "alt" ELSE "main"
  IN  /\ t.pc = "accepted"
      /\ SetScans([scans EXCEPT ![v] = <<>>])
      /\ total' = [total EXCEPT ![v] = 0]
      /\ cursor' = [cursor EXCEPT ![v] = None]
      /\ clr' = RemoveAt(clr, i)
      /\ UNCHANGED <<uiVars, now, lastHitRef, known, candVars, db, remoteVars,
                     taskVars, nextCap, evt, restarts, idbFaults, removePrompt,
                     alerts, rm, qr>>

\* ------------------------------------------------------------------------
\* parseQrPayload applied to a text, and to the text its result keeps
\* ------------------------------------------------------------------------
ParseText ==
  /\ qr.parsed = None
  /\ qr' = [qr EXCEPT !.parsed = Some(parseQrPayload(qr.text))]
  /\ UNCHANGED <<uiVars, now, lastHitRef, listVars, known, candVars, db,
                 remoteVars, taskVars, nextCap, evt, restarts, idbFaults,
                 adminVars>>
ParseAgain ==
  /\ qr.parsed # None
  /\ qr.again = None
  /\ qr' = [qr EXCEPT !.again = Some(parseQrPayload(qr.parsed[1].raw))]
  /\ UNCHANGED <<uiVars, now, lastHitRef, listVars, known, candVars, db,
                 remoteVars, taskVars, nextCap, evt, restarts, idbFaults,
                 adminVars>>

\* ------------------------------------------------------------------------
\* Specifications
\* ------------------------------------------------------------------------
\* the operator opens a workspace, switches it, starts the scanner
Navigate ==
  \/ \E m \in Modes : StartSession(m)
  \/ \E m \in Modes : SetMode(m)
  \/ StartScanner
\* the same without the header toggle
Open ==
  \/ \E m \in Modes : StartSession(m)
  \/ StartScanner
LeaveOrStop ==
  \/ BackToStart
  \/ StopScanner
\* a code is decoded and checked
ScanOf(texts) ==
  \/ \E x \in texts : DetectStart(x)
  \/ \E i \in 1..Len(det), a \in BOOLEAN : DetectExistsResp(i, a)
Scan == ScanOf(ScanTexts)
\* the operator answers the prompt or discards the candidate
Decide ==
  \/ handleDupDiscard
  \/ handleDupContinue
  \/ DiscardPending
\* the operator drops what is held or pending
Dismiss ==
  \/ handleDupDiscard
  \/ DiscardPending
Confirm ==
  \/ ConfirmStart
  \/ \E i \in 1..Len(conf), a \in BOOLEAN : ConfirmExistsResp(i, a)
  \/ \E i \in 1..Len(conf), ok \in BOOLEAN : ConfirmSubmitSent(i, ok)
  \/ \E i \in 1..Len(conf) : ConfirmSubmitResp(i)
  \/ \E i \in 1..Len(conf) : ConfirmIdbAdd(i)
Damaged ==
  \/ \E x \in ManualSerials : DamagedStart(x)
  \/ \E i \in 1..Len(dmg), a \in BOOLEAN, y \in BOOLEAN : DamagedExistsResp(i, a, y)
  \/ \E i \in 1..Len(dmg), ok \in BOOLEAN : DamagedSubmitSent(i, ok)
  \/ \E i \in 1..Len(dmg) : DamagedSubmitResp(i)
  \/ \E i \in 1..Len(dmg) : DamagedIdbAdd(i)
Import ==
  \E S \in (SUBSET ManualSerials) \ {{}} : ImportKnown(S)
Flush ==
  \/ OnlineEvent
  \/ \E i \in 1..Len(flush) : FlushRead(i)
  \/ \E i \in 1..Len(flush), ok \in BOOLEAN : FlushBulkResp(i, ok)
  \/ \E i \in 1..Len(flush) : FlushClear(i)
  \/ \E i \in 1..Len(flush), o \in ReloadOutcomes : FlushReloadResp(i, o)
\* IndexedDB requests that fail
ConfirmFault == \E i \in 1..Len(conf) : ConfirmIdbFault(i)
FlushFault == \E i \in 1..Len(flush) : FlushIdbFault(i)
ManualFault == \E i \in 1..Len(dmg) : DamagedIdbFault(i)
InitialLoad ==
  \E w \in Modes, o \in ReloadOutcomes : LoadResp(w, o)
\* the same against a table that goes on beyond the first page
PagedLoad ==
  \E w \in Modes, o \in PagedOutcomes : LoadResp(w, o)
\* the operator removes a row or clears the workspace
Admin ==
  \/ \E i \in 1..Len(scans[mode]) : handleRemoveScan(scans[mode][i].id)
  \/ discardRemovePrompt
  \/ RemoveStart
  \/ \E i \in 1..Len(rm), ok \in BOOLEAN : RemoveSent(i, ok)
  \/ \E i \in 1..Len(rm) : RemoveResp(i)
  \/ \E pw \in Passwords : ClearStart(pw)
  \/ \E i \in 1..Len(clr), ok \in BOOLEAN : ClearSent(i, ok)
  \/ \E i \in 1..Len(clr) : ClearResp(i)
\* live sync events
Realtime ==
  \/ \E w \in Modes : \E r \in server[w] : onNew(w, r)
  \/ \E w \in Modes, id \in EventIds : onDeleted(w, id)
  \/ \E w \in Modes : onCleared(w)

\* the whole client
Next ==
  \/ Navigate \/ LeaveOrStop \/ Tick \/ Scan \/ Decide \/ Confirm \/ Damaged
  \/ Import \/ Flush \/ ConfirmFault \/ FlushFault \/ ManualFault
  \/ InitialLoad \/ RemoteRecovers \/ Restart
Spec == Init /\ [][Next]_vars

\* scanning, confirming and the offline queue with failing storage
NextQueue ==
  Navigate \/ ScanOf(TwoTexts) \/ Confirm \/ Flush \/ ConfirmFault \/ FlushFault
SpecQueue == Init /\ [][NextQueue]_vars

\* the same with working storage: what overlapping flushes alone do
NextRace == Navigate \/ ScanOf(TwoTexts) \/ Confirm \/ Flush
SpecRace == Init /\ [][NextRace]_vars

\* the offline queue across restarts
NextDurable == Open \/ ScanOf(TwoTexts) \/ Confirm \/ Flush \/ Restart
SpecDurable == Init /\ [][NextDurable]_vars

\* capture, duplicate prompt and operator decisions
NextStage ==
  \/ Navigate \/ LeaveOrStop \/ Tick \/ ScanOf(TwoTexts) \/ Decide \/ Confirm
  \/ Damaged \/ ConfirmFault \/ ManualFault
SpecStage == Init /\ [][NextStage]_vars

\* the duplicate sources of both workspaces
NextDup ==
  Navigate \/ ScanOf(TwoTexts) \/ Dismiss \/ Confirm \/ Import \/ InitialLoad
SpecDup == Init /\ [][NextDup]_vars

\* the flush path under a fair scheduler: a flushBoth call that can take its
\* next step (a settled IndexedDB request, an answered fetch) takes it
FlushStep(i) ==
  /\ i \in 1..Len(flush)
  /\ \/ FlushRead(i)
     \/ \E ok \in BOOLEAN : FlushBulkResp(i, ok)
     \/ FlushClear(i)
     \/ FlushReloadResp(i, "throw")
     \/ FlushReloadResp(i, "empty")
     \/ FlushReloadResp(i, "page")
NextLive == Open \/ ScanOf(TwoTexts) \/ Confirm \/ Flush \/ RemoteRecovers
SpecLive ==
  Init /\ [][NextLive]_vars /\ \A i \in 1..MaxFlush : WF_vars(FlushStep(i))

\* the lists of both workspaces under page loads and live sync
NextSync == Navigate \/ PagedLoad \/ Realtime
SpecSync == Init /\ [][NextSync]_vars

\* the echo of a submit: live sync without the page loads
NextEcho == Open \/ ScanOf(TwoTexts) \/ Confirm \/ Realtime
SpecEcho == Init /\ [][NextEcho]_vars

\* removing and clearing what the page loads have listed
NextAdmin == Navigate \/ PagedLoad \/ Admin
SpecAdmin == Init /\ [][NextAdmin]_vars

\* removing rows while the socket delivers the events of the tables
NextRemove == Open \/ PagedLoad \/ Admin \/ Realtime
SpecRemove == Init /\ [][NextRemove]_vars

\* Confirm & Save clicked again while a call is under way
ConfirmTwice ==
  \/ ConfirmClick(MaxClicks)
  \/ \E i \in 1..Len(conf), a \in BOOLEAN : ConfirmExistsResp(i, a)
  \/ \E i \in 1..Len(conf), ok \in BOOLEAN : ConfirmSubmitSent(i, ok)
  \/ \E i \in 1..Len(conf) : ConfirmSubmitResp(i)
  \/ \E i \in 1..Len(conf) : ConfirmIdbAdd(i)
NextTwice == Open \/ ScanOf(TwoTexts) \/ ConfirmTwice
SpecTwice == Init /\ [][NextTwice]_vars

\* rows confirmed while the remote is away, then removed by the operator
NextUndo == Open \/ ScanOf(TwoTexts) \/ Confirm \/ Admin
SpecUndo == Init /\ [][NextUndo]_vars

\* confirming while the remote is away and the storage fails
NextFault == Navigate \/ ScanOf(TwoTexts) \/ Confirm \/ ConfirmFault
SpecFault == Init /\ [][NextFault]_vars

\* the parser on its own, over the texts of ParserTexts
InitParse == Mounted /\ \E x \in ParserTexts : qr = Unparsed(x)
NextParse == ParseText \/ ParseAgain
SpecParse == InitParse /\ [][NextParse]_vars

\* decoding over time: the scanner, the clock and the operator's decisions
NextScan == Open \/ LeaveOrStop \/ Tick \/ Scan \/ Decide
SpecScan == Init /\ [][NextScan]_vars

\* waiting on the remote while the clock runs: what the page does by itself
\* is done (time passes; a response that has arrived is processed; an
\* IndexedDB request settles), whereas nothing obliges the remote to answer
\* a request
ClientStep(i) ==
  /\ i \in 1..Len(conf)
  /\ \/ ConfirmSubmitResp(i)
     \/ ConfirmIdbAdd(i)
NextWait == Open \/ Tick \/ ScanOf(TwoTexts) \/ Confirm
SpecWait ==
  /\ Init /\ [][NextWait]_vars
  /\ WF_vars(Tick)
  /\ \A i \in 1..MaxConf : WF_vars(ClientStep(i))

TypeOK ==
  /\ mode \in Modes
  /\ showStart \in BOOLEAN
  /\ scanMode \in Modes \cup {"off"}
  /\ Len(pending) <= 1
  /\ Len(dupPrompt) <= 1
  /\ nextCap \in 0..MaxCaps


\* ------------------------------------------------------------------------
\* Vocabulary of the properties
\* ------------------------------------------------------------------------
Other(w) == IF w = "main" THEN "alt" ELSE "main"
QueueCaps(w) == {x.payload.cap : x \in Queue(w)}
BulkRowsOf(w) == {r \in server[w] : r.via = "bulk"}
BulkCaps(w) == {r.cap : r \in BulkRowsOf(w)}
ServerCaps(w) == {r.cap : r \in server[w]}
ListCaps(w) == {scans[w][i].cap : i \in 1..Len(scans[w])}
HasId(w, k) == \E x \in Queue(w) : x.id = k
\* the step removes x from w's queue on behalf of a flushBoth call that is at
\* its idbClear for w and has x among the items it read
RemovedByFlushOf(w, x) ==
  \E i \in 1..Len(flush) :
    /\ flush[i].pc = "clear"
    /\ flush[i].m = w
    /\ x \in SeqToSet(flush[i].items)

\* ------------------------------------------------------------------------
\* C1
\* ------------------------------------------------------------------------
\* the step in which the confirmPending call i, whose submit failed, gets its
\* idbAdd settled and runs to its end
EnqueueCompletes(i) ==
  /\ i \in 1..Len(conf)
  /\ conf[i].pc = "idbAdd"
  /\ conf' = RemoveAt(conf, i)
  /\ idbFaults' = idbFaults
  /\ restarts' = restarts
EnqueueEffect(i) ==
  LET w == conf[i].m
      rec == conf[i].rec
  IN  /\ \E x \in QueueIn(db', w) :
            /\ x \notin Queue(w)
            /\ x.payload = rec
            /\ QueueIn(db', w) = Queue(w) \cup {x}
      /\ QueueIn(db', Other(w)) = Queue(Other(w))
      /\ scans'[w] # <<>>
      /\ Head(scans'[w]).id.k = "tmp"
      /\ Head(scans'[w]).serial = rec.serial
      /\ Head(scans'[w]).cap = rec.cap
      /\ Tail(scans'[w]) = scans[w]
      /\ scans'[Other(w)] = scans[Other(w)]
      /\ pending' = None
      /\ qrExtras' = EmptyExtras
\* every serial the session has confirmed in w is on w's remote table or in
\* w's queue
NeverLost ==
  \A w \in Modes : \A e \in known[w] :
    \/ \E r \in server[w] : r.via # "other" /\ normalizeSerial(r.serial) = e.serial
    \/ \E x \in Queue(w) : normalizeSerial(x.payload.serial) = e.serial
\* C1: when the submit of a confirmed candidate has failed, the completing
\* handler adds the record to the queue of the workspace it was confirmed in,
\* puts it at the head of that workspace's list under a temporary id and
\* clears the pending candidate and the QR extras (no candidate under
\* review); and at all times every confirmed record is on the remote or in
\* the queue.
C1_EnqueueOnFailure ==
  /\ [][\A i \in 1..MaxConf :
          IF EnqueueCompletes(i) THEN EnqueueEffect(i) ELSE TRUE]_vars
  /\ []NeverLost
C1_Witness ==
  \E w \in Modes :
    /\ scans[w] # <<>>
    /\ Head(scans[w]).id.k = "tmp"
    /\ Head(scans[w]).cap \in QueueCaps(w)
    /\ Head(scans[w]).cap \notin ServerCaps(w)
    /\ pending = None
    /\ conf = <<>>

\* ------------------------------------------------------------------------
\* C2
\* ------------------------------------------------------------------------
ClearSettles(i) ==
  /\ i \in 1..Len(flush)
  /\ flush[i].pc = "clear"
  /\ Len(flush') = Len(flush)
  /\ flush'[i].pc = "reload"
\* C2: the idbClear of a successful flush of workspace W removes from W's
\* queue exactly the items whose ids the flush read and posted; an item
\* enqueued while the request was in flight stays, and the other workspace's
\* queue is untouched.
C2_RemovesExactlyRead ==
  [][\A i \in 1..MaxFlush :
       IF ClearSettles(i)
         THEN /\ QueueIn(db', flush[i].m) =
                   {x \in Queue(flush[i].m) : x.id \notin ItemIds(flush[i].items)}
              /\ QueueIn(db', Other(flush[i].m)) = Queue(Other(flush[i].m))
         ELSE TRUE]_vars
C2_Witness ==
  \E i \in 1..Len(flush) :
    /\ flush[i].pc = "reload"
    /\ flush[i].items # <<>>
    /\ \E x \in Queue(flush[i].m) :
         \A k \in ItemIds(flush[i].items) : x.id > k

\* ------------------------------------------------------------------------
\* C3
\* ------------------------------------------------------------------------
\* the step in which the bulk request of call i is answered without success
BulkFails(i) ==
  /\ i \in 1..Len(flush)
  /\ flush[i].pc = "post"
  /\ \/ flush' = RemoveAt(flush, i)
     \/ /\ Len(flush') = Len(flush)
        /\ flush'[i] # flush[i]
        /\ \A j \in 1..Len(flush) : j # i => flush'[j] = flush[j]
  /\ server' = server
  /\ restarts' = restarts
\* C3: when the bulk request of a flush fails, the queue is left as it is and
\* that flush goes on without a removal step for the workspace; a flush is
\* at its removal step only for a batch the remote has accepted.
C3_FailedFlushKeepsAll ==
  /\ [][\A i \in 1..MaxFlush :
          IF BulkFails(i)
            THEN /\ db' = db
                 /\ \/ Len(flush') < Len(flush)
                    \/ flush'[i].pc = "read" /\ flush'[i].m # flush[i].m
            ELSE TRUE]_vars
  /\ [](\A i \in 1..Len(flush) :
          flush[i].pc = "clear" =>
            \A j \in 1..Len(flush[i].items) :
              flush[i].items[j].payload.cap \in BulkCaps(flush[i].m))
C3_Witness ==
  \E i \in 1..Len(flush) :
    /\ flush[i].m = "alt"
    /\ Len(flush[i].mainItems) = 2
    /\ \A j \in 1..2 :
         /\ flush[i].mainItems[j] \in Queue("main")
         /\ flush[i].mainItems[j].payload.cap \notin BulkCaps("main")

\* ------------------------------------------------------------------------
\* C4
\* ------------------------------------------------------------------------
\* C4: the queue is partitioned by workspace: every item sits in the store of
\* the workspace it was enqueued under, a flush of W holds only W's items,
\* every row a bulk request created is on the table of the workspace its
\* record was enqueued under, and a step that removes items from W's store
\* is the removal step of a flush of W.
C4_Partitioned ==
  /\ [](\A w \in Modes :
          /\ \A x \in Queue(w) : x.payload.origin = w
          /\ \A r \in BulkRowsOf(w) : r.origin = w
          /\ \A i \in 1..Len(flush) :
               flush[i].m = w =>
                 \A j \in 1..Len(flush[i].items) :
                   flush[i].items[j].payload.origin = w)
  /\ [][\A w \in Modes : \A x \in Queue(w) :
          x \notin QueueIn(db', w) => RemovedByFlushOf(w, x)]_vars
C4_Witness ==
  /\ BulkRowsOf("main") # {}
  /\ BulkRowsOf("alt") # {}
  /\ Queue("main") = {}
  /\ Queue("alt") = {}

\* ------------------------------------------------------------------------
\* C5
\* ------------------------------------------------------------------------
\* C5: a restart leaves both queues as they are; an item leaves its queue
\* only in the removal step of a flush of its own workspace whose bulk
\* request the remote accepted, and that step leaves the other workspace's
\* queue as it is.
C5_SurvivesRestart ==
  [][/\ restarts' # restarts => \A w \in Modes : QueueIn(db', w) = Queue(w)
     /\ \A w \in Modes : \A x \in Queue(w) :
          x \notin QueueIn(db', w) =>
            /\ RemovedByFlushOf(w, x)
            /\ x.payload.cap \in BulkCaps(w)
            /\ QueueIn(db', Other(w)) = Queue(Other(w))]_vars
\* after a restart, a flush has removed an item enqueued before the restart
\* while the other workspace still has an item queued
C5_Witness ==
  /\ restarts >= 1
  /\ \E i \in 1..Len(flush) :
       /\ flush[i].pc = "reload"
       /\ Queue(Other(flush[i].m)) # {}
       /\ \E j \in 1..Len(flush[i].items) :
            /\ flush[i].items[j].payload.epoch < restarts
            /\ flush[i].items[j] \notin Queue(flush[i].m)

\* ------------------------------------------------------------------------
\* C6
\* ------------------------------------------------------------------------
\* C6: no queued record is carried by two bulk requests that both succeed:
\* the rows bulk requests have created on the remote belong to different
\* captures.
C6_ReplayedOnce ==
  \A w1 \in Modes, w2 \in Modes :
    \A r1 \in BulkRowsOf(w1), r2 \in BulkRowsOf(w2) :
      r1.cap = r2.cap => r1 = r2

\* ------------------------------------------------------------------------
\* C7
\* ------------------------------------------------------------------------
\* a flushBoth call is under way that has yet to read w's queue
FlushWillRead(w) ==
  \E i \in 1..Len(flush) :
    \/ flush[i].pc = "read" /\ flush[i].m = w
    \/ flush[i].m = "main" /\ w = "alt"
\* C7: once the remote answers every bulk request with OK, an item that is
\* in a workspace's queue when a flush trigger has fired (a flushBoth call
\* has yet to read that queue) is eventually removed from the queue; and an
\* item is removed only by the removal step of a flush whose bulk request
\* succeeded.
C7_EventuallyDelivered ==
  /\ \A w \in Modes : \A k \in 1..MaxCaps :
       (bulkHealthy /\ HasId(w, k) /\ FlushWillRead(w)) ~> ~HasId(w, k)
  /\ [][\A w \in Modes : \A x \in Queue(w) :
          x \notin QueueIn(db', w) =>
            RemovedByFlushOf(w, x) /\ x.payload.cap \in BulkCaps(w)]_vars
\* an item of ALT was queued while the remote failed, the remote recovered,
\* and a flush has delivered and removed it
C7_Witness ==
  /\ bulkHealthy
  /\ \E i \in 1..Len(flush) :
       /\ flush[i].pc = "reload"
       /\ flush[i].m = "alt"
       /\ flush[i].items # <<>>
       /\ flush[i].items[1].payload.cap \in BulkCaps("alt")
       /\ Queue("alt") = {}

\* ------------------------------------------------------------------------
\* C8
\* ------------------------------------------------------------------------
\* serials the check is asked about: those of the inputs, raw and normalised
ProbeSerials ==
  ScanTexts \cup ManualSerials \cup
    {normalizeSerial(x) : x \in ScanTexts \cup ManualSerials}
InList(S, w) ==
  \E i \in 1..Len(scans[w]) : normalizeSerial(scans[w][i].serial) = normalizeSerial(S)
\* C8: in each workspace W the duplicate check reports every serial of W's
\* list a duplicate, and it reports a serial a duplicate only on account of
\* W's own list or of a serial imported or confirmed in W: nothing of the
\* other workspace's list or known set makes it report one.
C8_Isolation ==
  \A w \in Modes :
    /\ \A i \in 1..Len(scans[w]) : isKnownDuplicate(scans[w][i].serial, w)
    /\ \A S \in ProbeSerials :
         isKnownDuplicate(S, w) =>
           \/ InList(S, w)
           \/ \E e \in known[w] : e.by = w /\ e.serial = normalizeSerial(S)
\* a serial in one workspace's list and known set that the check of the other
\* workspace, whose list is not empty, does not report
C8_Witness ==
  \E w \in Modes : \E i \in 1..Len(scans[w]) :
    /\ isKnownDuplicate(scans[w][i].serial, w)
    /\ KnownHas(known[w], normalizeSerial(scans[w][i].serial))
    /\ ~isKnownDuplicate(scans[w][i].serial, Other(w))
    /\ scans[Other(w)] # <<>>

\* ------------------------------------------------------------------------
\* C9
\* ------------------------------------------------------------------------
\* a prompt raised by a scan or by a manual entry is held
HeldByCapture ==
  dupPrompt # None /\ dupPrompt[1].via \in {"scan", "manual"}
HeldCap == dupPrompt[1].candidate.pending.capturedAt
\* the held candidate has been neither submitted nor enqueued nor listed, and
\* no handler is on its way to do so
Unresolved(c) ==
  /\ \A w \in Modes : c \notin ServerCaps(w) \cup QueueCaps(w) \cup ListCaps(w)
  /\ \A i \in 1..Len(conf) :
       IF conf[i].pc = "exists" THEN conf[i].pending.capturedAt # c
                                ELSE conf[i].rec.cap # c
  /\ \A i \in 1..Len(dmg) : dmg[i].rec.cap # c
\* C9: the step in which a scan or a manual entry raises the duplicate
\* prompt submits nothing, enqueues nothing and leaves lists, counts and
\* queues as they are; and as long as the prompt is held its candidate is
\* neither submitted nor enqueued nor added to a list.
C9_NeverAutoResolved ==
  /\ [][(dupPrompt' # dupPrompt /\ dupPrompt' # None
           /\ dupPrompt'[1].via \in {"scan", "manual"})
          => UNCHANGED <<scans, total, serialSetRef, db, server, conf>>]_vars
  /\ [](HeldByCapture => Unresolved(HeldCap))
C9_Witness ==
  /\ HeldByCapture
  /\ dupPrompt[1].via = "manual"
  /\ scans[mode] # <<>>
  /\ lastHitRef.serial # <<>>

\* ------------------------------------------------------------------------
\* C10
\* ------------------------------------------------------------------------
\* C10: a candidate the operator has chosen to continue with is not held by
\* a duplicate check again when it is confirmed.
C10_OverrideNotHeldAgain ==
  (dupPrompt # None /\ dupPrompt[1].via = "confirm")
    => ~dupPrompt[1].candidate.pending.continued
\* ------------------------------------------------------------------------
\* C11
\* ------------------------------------------------------------------------
\* the step is a click on Confirm & Save that starts a confirmPending call
ConfirmBegins == Len(conf') = Len(conf) + 1 /\ restarts' = restarts
\* the step raises the duplicate prompt from within confirmPending
ConfirmHolds ==
  /\ dupPrompt' # dupPrompt
  /\ dupPrompt' # None
  /\ dupPrompt'[1].via = "confirm"
\* the confirmPending call i gets the answer of its existence check and goes
\* on to the submit
ConfirmPasses(i) ==
  /\ i \in 1..Len(conf)
  /\ conf[i].pc = "exists"
  /\ Len(conf') = Len(conf)
  /\ conf'[i].pc = "submit"
\* the candidate that the step holds: the pending one and the QR extras of
\* the click (local sources) or of the call whose existence check answered
HeldFromClick ==
  /\ pending # None
  /\ isKnownDuplicate(pending[1].serial, mode)
  /\ conf' = conf
  /\ dupPrompt'[1].candidate = [pending |-> pending[1], qrExtras |-> qrExtras]
HeldFromCheck ==
  \E i \in 1..Len(conf) :
    /\ conf[i].pc = "exists"
    /\ conf' = RemoveAt(conf, i)
    /\ dupPrompt'[1].check = "exists"
    /\ RemoteExists(endpointExists(conf[i].m), conf[i].pending.serial)
    /\ dupPrompt'[1].candidate =
         [pending |-> conf[i].pending, qrExtras |-> conf[i].qrExtras]
\* C11: a confirmPending call goes past its local check only when the pending
\* serial is in neither the serial index nor the known set of the active
\* workspace, and past its existence check only when that check did not
\* report the serial; a call that finds the serial (locally or by the check)
\* submits nothing, enqueues nothing, ends, and raises the duplicate prompt
\* with the candidate and its QR fields retained.
C11_ReverifiedOnConfirm ==
  /\ [][ConfirmBegins => ~isKnownDuplicate(pending[1].serial, mode)]_vars
  /\ [][\A i \in 1..MaxConf :
          ConfirmPasses(i) => conf'[i].check # "exists"]_vars
  /\ [][ConfirmHolds =>
          /\ HeldFromClick \/ HeldFromCheck
          /\ UNCHANGED <<server, db, scans, total, pending, qrExtras>>]_vars
C11_Witness ==
  /\ dupPrompt # None
  /\ dupPrompt[1].via = "confirm"
  /\ dupPrompt[1].check = "exists"
  /\ pending # None
  /\ dupPrompt[1].candidate.pending = pending[1]
  /\ dupPrompt[1].candidate.qrExtras = qrExtras
  /\ qrExtras # EmptyExtras
  /\ conf = <<>>

\* ------------------------------------------------------------------------
\* C12
\* ------------------------------------------------------------------------
\* the onDetected call i gets the answer of its existence check
DetectAnswered(i) ==
  /\ i \in 1..Len(det)
  /\ det' = RemoveAt(det, i)
  /\ restarts' = restarts
\* the confirmPending call i gets the answer of its existence check
ConfirmAnswered(i) ==
  /\ i \in 1..Len(conf)
  /\ conf[i].pc = "exists"
  /\ \/ conf' = RemoveAt(conf, i)
     \/ /\ Len(conf') = Len(conf)
        /\ conf'[i] # conf[i]
        /\ \A j \in 1..Len(conf) : j # i => conf'[j] = conf[j]
  /\ restarts' = restarts
\* the candidate of the onDetected call i becomes the pending one
BecomesPending(i) ==
  /\ pending' # None
  /\ pending'[1].check \in {"absent", "failed"}
  /\ pending' = Some([det[i].cand.pending EXCEPT !.check = pending'[1].check])
  /\ qrExtras' = det[i].cand.qrExtras
  /\ dupPrompt' = dupPrompt
\* the step leaves the prompt raised for the candidate of a call whose check
\* was answered with `exists`
HeldByAnswer(cand, w) ==
  /\ dupPrompt' # None
  /\ dupPrompt'[1].check = "exists"
  /\ dupPrompt'[1].candidate = cand
  /\ pending' = pending
  /\ RemoteExists(endpointExists(w), cand.pending.serial)
\* C12: the duplicate prompt is never raised on account of an existence
\* check that threw or came back not OK: a capture whose check was not
\* answered with `exists` makes its candidate the pending one, and a confirm
\* whose check was not answered with `exists` goes on to the submit.
C12_FailOpen ==
  /\ [](dupPrompt # None => dupPrompt[1].check \in {"local", "exists"})
  /\ [][\A i \in 1..MaxDet :
          DetectAnswered(i) =>
            \/ HeldByAnswer(det[i].cand, det[i].m)
            \/ BecomesPending(i)]_vars
  /\ [][\A i \in 1..MaxConf :
          ConfirmAnswered(i) =>
            \/ HeldByAnswer([pending |-> conf[i].pending,
                             qrExtras |-> conf[i].qrExtras], conf[i].m)
            \/ ConfirmPasses(i) /\ conf'[i].check \in {"absent", "failed"}]_vars
C12_Witness ==
  /\ pending # None
  /\ pending[1].check = "failed"
  /\ \E i \in 1..Len(conf) :
       /\ conf[i].pc = "submit"
       /\ conf[i].check = "failed"
       /\ conf[i].rec.cap = pending[1].capturedAt
       /\ RemoteExists(endpointExists(conf[i].m), conf[i].rec.serial)

\* ------------------------------------------------------------------------
\* C13
\* ------------------------------------------------------------------------
\* the confirmPending call i, whose submit the remote has accepted, gets the
\* OK response and runs to its end
SubmitSucceeds(i) ==
  /\ i \in 1..Len(conf)
  /\ conf[i].pc = "accepted"
  /\ conf' = RemoveAt(conf, i)
  /\ restarts' = restarts
SubmitEffect(i) ==
  LET w == conf[i].m
      rec == conf[i].rec
  IN  /\ scans'[w] # <<>>
      /\ Head(scans'[w]).id = [k |-> "srv", n |-> conf[i].id]
      /\ Head(scans'[w]).serial = rec.serial
      /\ Head(scans'[w]).extras = rec.extras
      /\ Head(scans'[w]).cap = rec.cap
      /\ \E r \in server[endpointScan(w)] :
           r.id = Head(scans'[w]).id /\ r.cap = rec.cap
      /\ Tail(scans'[w]) = scans[w]
      /\ scans'[Other(w)] = scans[Other(w)]
      /\ total' = [total EXCEPT ![w] = @ + 1]
      /\ KnownHas(known'[w], normalizeSerial(rec.serial))
      /\ known[w] \subseteq known'[w]
      /\ \A e \in known'[w] \ known[w] : e.serial = normalizeSerial(rec.serial)
      /\ known'[Other(w)] = known[Other(w)]
      /\ pending' = None
      /\ qrExtras' = EmptyExtras
      /\ db' = db
      /\ server' = server
\* C13: when the submit of a confirmed candidate has succeeded, the
\* completing handler puts the record under the id the remote assigned at the
\* head of the list of the workspace it was confirmed in, adds its normalized
\* serial to that workspace's known set, raises that workspace's count by 1,
\* clears the pending candidate and the QR extras, and enqueues nothing.
C13_SubmitSuccess ==
  [][\A i \in 1..MaxConf :
       IF SubmitSucceeds(i) THEN SubmitEffect(i) ELSE TRUE]_vars
C13_Witness ==
  \E w \in Modes :
    /\ scans[w] # <<>>
    /\ Head(scans[w]).id.k = "srv"
    /\ \E r \in server[endpointScan(w)] :
         r.id = Head(scans[w]).id /\ r.cap = Head(scans[w]).cap /\ r.via = "scan"
    /\ KnownHas(known[w], normalizeSerial(Head(scans[w]).serial))
    /\ total[w] = 1
    /\ pending = None
    /\ qrExtras = EmptyExtras
    /\ Queue(w) = {}
    /\ conf = <<>>
    /\ Head(scans[w]).extras # EmptyExtras

\* ------------------------------------------------------------------------
\* C14
\* ------------------------------------------------------------------------
\* the step evaluates a decode: it issues the existence request of a new
\* onDetected call or raises the prompt of a scan for a local duplicate
DecodeEvaluated ==
  \/ Len(det') = Len(det) + 1
  \/ /\ det' = det
     /\ dupPrompt' # dupPrompt
     /\ dupPrompt' # None
     /\ dupPrompt'[1].via = "scan"
\* the serial key of the decode the step evaluates
EvaluatedKey ==
  IF Len(det') = Len(det) + 1 THEN det'[Len(det')].cand.pending.serial
  ELSE dupPrompt'[1].serial
NewDelivered == evt'.n = evt.n + 1 /\ evt'.kind = "new"
\* the row the event of the step carries
EventRow == CHOOSE r \in server[evt'.w] : r.id = evt'.id
EntriesWithId(list, id) == Cardinality({i \in 1..Len(list) : list[i].id = id})
\* the list has an entry with the id or with the normalized serial of r
Covers(list, r) ==
  \E i \in 1..Len(list) :
    \/ list[i].id = r.id
    \/ normalizeSerial(list[i].serial) = normalizeSerial(r.serial)
\* what one delivery does to the list of its workspace
NewEffect ==
  LET w == evt'.w
      r == EventRow
  IN  /\ IF Covers(scans[w], r)
           THEN scans'[w] = scans[w]
           ELSE /\ Head(scans'[w]) = ListRow(r)
                /\ Tail(scans'[w]) = scans[w]
      /\ Covers(scans'[w], r)
      /\ EntriesWithId(scans'[w], r.id) <= 1 \/
           EntriesWithId(scans'[w], r.id) = EntriesWithId(scans[w], r.id)
      /\ scans'[Other(w)] = scans[Other(w)]
\* the step delivers again the event that was delivered last
Redelivered ==
  /\ NewDelivered
  /\ evt.kind = "new"
  /\ evt.w = evt'.w
  /\ evt.id = evt'.id
\* C15 as stated: after a row-created event has been delivered the list of its
\* workspace has exactly one entry with the id of the event.
C15_ExactlyOneEntry ==
  [][NewDelivered => EntriesWithId(scans'[evt'.w], evt'.id) = 1]_vars
\* C15 (amended): a row-created event adds its row at the head of the list of
\* its workspace when the list has no entry with the same id or the same
\* normalized serial and leaves the list as it is otherwise, so that it never
\* adds a second entry for its id, and delivering the same event again leaves
\* the list unchanged.
C15_DeliveredAgainNoChange ==
  /\ [][NewDelivered => NewEffect]_vars
  /\ [][Redelivered => scans' = scans]_vars
C15_Witness ==
  /\ evt.kind = "new"
  /\ evt.n >= 2
  /\ EntriesWithId(scans[evt.w], evt.id) = 1
  /\ Len(scans[evt.w]) = 1
  /\ total[evt.w] = 2
  /\ conf = <<>>
  /\ nextCap = 0

\* ------------------------------------------------------------------------
\* C16
\* ------------------------------------------------------------------------
\* entries of the list that stand for the capture c
EntriesOfCapture(list, c) == Cardinality({k \in 1..Len(list) : list[k].cap = c})
\* C16: when the OK response of a submit has been processed, the list of the
\* workspace has exactly one entry for the submitted record, whether or not
\* the row-created event of the insert was delivered before.
C16_OneEntryEitherOrder ==
  [][\A i \in 1..MaxConf :
       SubmitSucceeds(i) =>
         EntriesOfCapture(scans'[conf[i].m], conf[i].rec.cap) = 1]_vars

\* ------------------------------------------------------------------------
\* C17
\* ------------------------------------------------------------------------
\* the step delivers a socket event
EventDelivered == evt'.n = evt.n + 1
\* what the client shows of workspace w: list, count and cursor
Shown(w) == <<scans[w], total[w], cursor[w]>>
ShownNext(w) == <<scans'[w], total'[w], cursor'[w]>>
\* C17: a row-created event of a workspace other than the active one leaves
\* the list, the count and the cursor of the active workspace as they are.
C17_OtherWorkspaceEvent ==
  [][(NewDelivered /\ evt'.w # mode) => ShownNext(mode) = Shown(mode)]_vars
C17_Witness ==
  /\ evt.kind = "new"
  /\ evt.w # mode
  /\ scans[evt.w] # <<>>
  /\ Head(scans[evt.w]).id = evt.id
  /\ total[evt.w] = 1
  /\ scans[mode] = <<>>
  /\ total[mode] = 0
  /\ load[mode] = "done"
  /\ load[evt.w] = "done"

\* ------------------------------------------------------------------------
\* C18
\* ------------------------------------------------------------------------
\* the step delivers a row-deleted event
DeletedDelivered == EventDelivered /\ evt'.kind = "deleted"
DeletedEffect ==
  LET w == evt'.w
      id == evt'.id
      had == EntriesWithId(scans[w], id) > 0
  IN  /\ EntriesWithId(scans'[w], id) = 0
      /\ Len(scans'[w]) = Len(scans[w]) - EntriesWithId(scans[w], id)
      /\ \A k \in 1..Len(scans'[w]) : \E j \in 1..Len(scans[w]) :
           scans'[w][k] = scans[w][j]
      /\ total'[w] = IF ~had THEN total[w]
                     ELSE IF total[w] = 0 THEN 0 ELSE total[w] - 1
      /\ ~had => scans'[w] = scans[w]
      /\ cursor' = cursor
      /\ ShownNext(Other(w)) = Shown(Other(w))
\* C18: a row-deleted event removes the entries with its id from the list of
\* its workspace and lowers that workspace's count by 1, not below 0, only
\* when an entry was removed; an id the list does not have leaves list and
\* count unchanged; the other workspace is not touched; no count is ever
\* negative.
C18_RowDeleted ==
  /\ [][DeletedDelivered => DeletedEffect]_vars
  /\ [](\A w \in Modes : total[w] >= 0)
C18_Witness ==
  /\ evt.kind = "deleted"
  /\ evt.id.n >= 1
  /\ evt.id \notin {r.id : r \in server[evt.w]}
  /\ known[evt.w] # {}
  /\ scans[evt.w] = <<>>
  /\ total[evt.w] = 1
  /\ conf = <<>>

\* ------------------------------------------------------------------------
\* C19
\* ------------------------------------------------------------------------
\* the step delivers a workspace-cleared event
ClearedDelivered == EventDelivered /\ evt'.kind = "cleared"
\* C19: a workspace-cleared event empties the list of its workspace, sets its
\* count to 0 and resets its cursor, and leaves list, count and cursor of the
\* other workspace as they are.
C19_WorkspaceCleared ==
  [][ClearedDelivered =>
       /\ ShownNext(evt'.w) = <<<<>>, 0, None>>
       /\ ShownNext(Other(evt'.w)) = Shown(Other(evt'.w))]_vars
C19_Witness ==
  /\ evt.kind = "cleared"
  /\ Shown(evt.w) = <<<<>>, 0, None>>
  /\ scans[Other(evt.w)] # <<>>
  /\ total[Other(evt.w)] >= 1
  /\ cursor[Other(evt.w)] # None
  /\ load[evt.w] = "done"

\* ------------------------------------------------------------------------
\* C20
\* ------------------------------------------------------------------------
\* a candidate captured after capture c is pending or held
Superseded(c) ==
  \/ pending # None /\ pending[1].capturedAt > c
  \/ dupPrompt # None /\ dupPrompt[1].candidate.pending.capturedAt > c
\* the candidate of capture c is no longer the pending one
NoLongerPending(c) ==
  pending = None \/ pending[1].capturedAt # c
\* C20: the answer of an existence check that comes after a later candidate
\* has become pending or held (check of a capture), or after its candidate has
\* been discarded or replaced (check of a confirm), changes neither the
\* pending candidate nor the duplicate prompt.
C20_StaleAnswerDropped ==
  /\ [][\A i \in 1..MaxDet :
          (DetectAnswered(i) /\ Superseded(det[i].cand.pending.capturedAt))
            => UNCHANGED <<pending, dupPrompt>>]_vars
  /\ [][\A i \in 1..MaxConf :
          (ConfirmAnswered(i) /\ NoLongerPending(conf[i].pending.capturedAt))
            => UNCHANGED <<pending, dupPrompt>>]_vars

\* ------------------------------------------------------------------------
\* C21
\* ------------------------------------------------------------------------
\* the confirmRemoveScan call i ends at its DELETE request: the request was
\* refused or failed
RemoveRejected(i) ==
  /\ i \in 1..Len(rm)
  /\ rm[i].pc = "delete"
  /\ rm' = RemoveAt(rm, i)
  /\ restarts' = restarts
\* the clearAllForCurrentMode call i ends at its POST request
ClearRejected(i) ==
  /\ i \in 1..Len(clr)
  /\ clr[i].pc = "post"
  /\ clr' = RemoveAt(clr, i)
  /\ restarts' = restarts
\* C21: the step in which a remove or a clear of the operator is refused by
\* the remote (or its request fails) leaves the list, the count and the
\* cursor of both workspaces and the remote tables as they are and raises an
\* alert that names the failure.
C21_RejectedLeavesState ==
  /\ [][\A i \in 1..MaxRemove :
          RemoveRejected(i) =>
            /\ UNCHANGED <<scans, total, cursor, server>>
            /\ alerts' = Append(alerts, "Failed to remove scan")]_vars
  /\ [][\A i \in 1..MaxClear :
          ClearRejected(i) =>
            /\ UNCHANGED <<scans, total, cursor, server>>
            /\ alerts' = Append(alerts, "Failed to clear scans")]_vars
C21_Witness ==
  /\ alerts = <<"Failed to remove scan", "Failed to clear scans">>
  /\ rm = <<>>
  /\ clr = <<>>
  /\ removePrompt = None
  /\ scans[mode] # <<>>
  /\ total[mode] >= 1
  /\ cursor[mode] # None

\* the parser finds a serial token in the text a scanned candidate keeps
ParserFoundSerial(cand) == parseQrPayload(cand.pending.raw).serial # <<>>
\* C22: a decoded text in which the parser finds no serial token never
\* becomes a candidate: none waits for its existence answer, none is held by
\* a prompt raised by a scan, none is pending from a scan.
C22_NoSerialNoCandidate ==
  /\ \A i \in 1..Len(det) : ParserFoundSerial(det[i].cand)
  /\ (dupPrompt # None /\ dupPrompt[1].via = "scan")
        => ParserFoundSerial(dupPrompt[1].candidate)
  /\ (pending # None /\ ~pending[1].continued)
        => ParserFoundSerial([pending |-> pending[1]])

\* ------------------------------------------------------------------------
\* C23
\* ------------------------------------------------------------------------
\* the step in which the flushBoth call i, whose bulk request was accepted
\* and whose items are cleared, applies the page it has fetched
FlushReloads(i) ==
  /\ i \in 1..Len(flush)
  /\ flush[i].pc = "reload"
  /\ flush' = FlushNext(i)
  /\ restarts' = restarts
  /\ scans'[flush[i].m] = RemotePage(endpointStaged(flush[i].m)).rows
  /\ scans'[flush[i].m] # <<>>
\* captures the items of the call's batch stand for
BatchCaps(i) == {flush[i].items[j].payload.cap : j \in 1..Len(flush[i].items)}
\* before the page is applied the workspace of the call shows what there is:
\* the count is the length of the list, every entry is a remote row or the
\* temporary entry of a batch item, every remote row's capture is listed and
\* every batch item has its temporary entry
ListedBeforeReload(i) ==
  LET w == flush[i].m
  IN  /\ total[w] = Len(scans[w])
      /\ \A k \in 1..Len(scans[w]) :
           \/ /\ scans[w][k].id.k = "srv"
              /\ \E r \in server[endpointStaged(w)] : r.id = scans[w][k].id
           \/ /\ scans[w][k].id.k = "tmp"
              /\ scans[w][k].cap \in BatchCaps(i)
      /\ ServerCaps(endpointStaged(w)) \subseteq ListCaps(w)
      /\ \A c \in BatchCaps(i) :
           \E k \in 1..Len(scans[w]) :
             scans[w][k].cap = c /\ scans[w][k].id.k = "tmp"
\* C23: when a flush that the remote accepted applies its page, every record
\* of its batch, listed until then under a temporary id and counted once, is
\* listed once under a durable id and the count of the workspace is what it
\* was before the step.
C23_NoDoubleCount ==
  [][\A i \in 1..MaxFlush :
       (FlushReloads(i) /\ ListedBeforeReload(i)) =>
         /\ \A c \in BatchCaps(i) :
              /\ EntriesOfCapture(scans'[flush[i].m], c) = 1
              /\ \A k \in 1..Len(scans'[flush[i].m]) :
                   scans'[flush[i].m][k].cap = c
                     => scans'[flush[i].m][k].id.k = "srv"
         /\ total'[flush[i].m] = total[flush[i].m]]_vars

\* ------------------------------------------------------------------------
\* C24
\* ------------------------------------------------------------------------
\* an existence request for the capture c is out: the one of onDetected or
\* the one of confirmPending
WaitsForExists(c) ==
  \/ \E i \in 1..Len(det) : det[i].cand.pending.capturedAt = c
  \/ \E i \in 1..Len(conf) :
       conf[i].pc = "exists" /\ conf[i].pending.capturedAt = c
\* the submit of the capture c is out
WaitsForSubmit(c) ==
  \E i \in 1..Len(conf) : conf[i].pc = "submit" /\ conf[i].rec.cap = c
\* the record of the capture c is on the remote or in a queue, and no
\* candidate is pending
StoredAndIdle(c) ==
  /\ \E w \in Modes : c \in ServerCaps(w) \cup QueueCaps(w)
  /\ pending = None
\* C24: no request to the remote is waited for without end: an existence
\* check that is out for a capture eventually is no longer waited for (the
\* capture goes on as not duplicate unless an answer holds it), and a submit
\* that is out eventually leaves the record stored, on the remote or in the
\* queue, with no candidate pending.
C24_BoundedWaiting ==
  /\ \A c \in 1..MaxCaps : WaitsForExists(c) ~> ~WaitsForExists(c)
  /\ \A c \in 1..MaxCaps : WaitsForSubmit(c) ~> StoredAndIdle(c)

\* ------------------------------------------------------------------------
\* C25
\* ------------------------------------------------------------------------
\* the step in which the operator discards: a candidate or a prompt is there
\* and one of them goes, no code is decoded, no handler call moves, and
\* afterwards no candidate is pending
Discarded ==
  /\ pending # None \/ dupPrompt # None
  /\ pending' # pending \/ dupPrompt' # dupPrompt
  /\ pending' = None
  /\ UNCHANGED <<taskVars, restarts, removePrompt, nextCap>>
\* C25: a discard, of a pending candidate or of a held duplicate, clears the
\* candidate, the QR extras and the prompt, starts no handler call (no
\* submit, no enqueue) and leaves the lists, the counts, the known sets, the
\* queues and the remote tables as they are.
C25_DiscardStoresNothing ==
  [][Discarded =>
       /\ pending' = None
       /\ qrExtras' = EmptyExtras
       /\ dupPrompt' = None
       /\ UNCHANGED <<listVars, known, db, remoteVars, taskVars>>]_vars
\* the only capture of the session was discarded: nothing is pending, held or
\* under way, and the capture is neither listed nor queued nor on the remote
C25_Witness ==
  /\ nextCap = 1
  /\ pending = None
  /\ dupPrompt = None
  /\ qrExtras = EmptyExtras
  /\ det = <<>>
  /\ conf = <<>>
  /\ \A w \in Modes : 1 \notin ListCaps(w) \cup QueueCaps(w) \cup ServerCaps(w)

\* ------------------------------------------------------------------------
\* C26
\* ------------------------------------------------------------------------
\* C26: a prompt that is held names at least one existing record that
\* conflicts with the candidate, whatever raised it: the list, the known set
\* or the remote check.
C26_PromptHasMatch ==
  dupPrompt # None => dupPrompt[1].matches # <<>>

\* ------------------------------------------------------------------------
\* C27
\* ------------------------------------------------------------------------
\* the tokens of the text handed to the parser
TextTokens == Tokenize(CleanText(qr.text))
\* places of the tokens made of 12 or more capitals and digits
LongPlaces == {i \in 1..Len(TextTokens) : IsSerialToken(TextTokens[i], 12)}
\* C27: when the text has a token of 12 or more capitals and digits, the
\* serial of the result is the first such token, also when a token of 8 or
\* more comes before it.
C27_LongSerialFirst ==
  (qr.parsed # None /\ LongPlaces # {}) =>
     qr.parsed[1].serial =
        TextTokens[CHOOSE i \in LongPlaces : \A j \in LongPlaces : i <= j]
\* a text of three tokens: one of 8 characters, then two of 12 or more
C27_Witness ==
  /\ qr.parsed # None
  /\ Len(TextTokens) = 3
  /\ IsSerialToken(TextTokens[1], 8)
  /\ LongPlaces = {2, 3}
  /\ qr.parsed[1].serial = TextTokens[2]

\* ------------------------------------------------------------------------
\* C28
\* ------------------------------------------------------------------------
\* the fields parsing extracts
Extracted(r) ==
  [serial |-> r.serial, grade |-> r.grade, railType |-> r.railType,
   spec |-> r.spec, lengthM |-> r.lengthM]
\* C28: parsing the text a result keeps yields the serial, grade, rail type,
\* specification and length of that result.
C28_ParseIdempotent ==
  qr.again # None => Extracted(qr.again[1]) = Extracted(qr.parsed[1])
\* a text whose cleaning changed it and that has a serial, a grade and a
\* length has been parsed twice
C28_Witness ==
  /\ qr.again # None
  /\ qr.parsed[1].raw # qr.text
  /\ qr.again[1].serial # <<>>
  /\ qr.again[1].grade # <<>>
  /\ qr.again[1].lengthM # <<>>

\* ------------------------------------------------------------------------
\* C29
\* ------------------------------------------------------------------------
\* C29: the text "RAILCO123456789 SAR60 R260LHT UIC 60 18m" is parsed to the
\* serial "RAILCO123456789", the grade "SAR60", the rail type "R260LHT", the
\* specification "UIC 60" and the length "18m".
C29_ScenarioFull ==
  (qr.text = ScenarioFull /\ qr.parsed # None) =>
     Extracted(qr.parsed[1]) =
       [serial |-> <<"R","A","I","L","C","O","1","2","3","4","5","6","7","8","9">>,
        grade |-> <<"S","A","R","6","0">>,
        railType |-> <<"R","2","6","0","L","H","T">>,
        spec |-> <<"U","I","C"," ","6","0">>,
        lengthM |-> <<"1","8","m">>]

\* ------------------------------------------------------------------------
\* C30
\* ------------------------------------------------------------------------
\* C30: no result has a grade that is not empty and equals its rail type;
\* the text "R260HT R260HT" is parsed to the rail type "R260HT" and an empty
\* grade.
C30_GradeNeverRailType ==
  qr.parsed # None =>
    /\ qr.parsed[1].grade # <<>> => qr.parsed[1].grade # qr.parsed[1].railType
    /\ qr.text = ScenarioRailTwice =>
         /\ qr.parsed[1].railType = <<"R","2","6","0","H","T">>
         /\ qr.parsed[1].grade = <<>>
C30_Witness ==
  /\ qr.text = ScenarioRailTwice
  /\ qr.parsed # None
  /\ qr.parsed[1].railType # <<>>

\* ------------------------------------------------------------------------
\* C31
\* ------------------------------------------------------------------------
\* C31: while a prompt is held, the pending candidate is absent or is the
\* capture the prompt holds: no prompt for one capture stands beside another
\* capture that is pending.
C31_OneCandidate ==
  (dupPrompt # None /\ pending # None) =>
     pending[1].capturedAt = dupPrompt[1].candidate.pending.capturedAt

\* ------------------------------------------------------------------------
\* C32
\* ------------------------------------------------------------------------
\* C32: a handler call that sends an existence request (of onDetected, of
\* confirmPending, of saveDamaged), and with it the submit that follows,
\* addresses the workspace that is active in the step in which the call is
\* made.
C32_ActiveWorkspaceTargeted ==
  [][/\ Len(det') > Len(det) => det'[Len(det')].m = mode
     /\ Len(conf') > Len(conf) => conf'[Len(conf')].m = mode
     /\ Len(dmg') > Len(dmg) => dmg'[Len(dmg')].m = mode]_vars

\* ------------------------------------------------------------------------
\* C33
\* ------------------------------------------------------------------------
\* serials some known set holds
KnownSerials == {e.serial : e \in known["main"] \cup known["alt"]}
\* C33: a switch of the workspace clears the known set: no serial that was
\* known before the step is reported by the known-set check of the workspace
\* that is active after it.
C33_SwitchClearsKnown ==
  [][mode' # mode =>
       \A key \in KnownSerials : ~KnownHas(known'[getKnownRef(mode')], key)]_vars

\* ------------------------------------------------------------------------
\* C34
\* ------------------------------------------------------------------------
\* C34: a row-created event whose row is already listed, by id or by
\* normalized serial, leaves the count of its workspace as it is; the count
\* rises by one exactly when the row is added to the list.
C34_IgnoredEventKeepsCount ==
  [][NewDelivered =>
       total'[evt'.w] =
         total[evt'.w] + (IF Covers(scans[evt'.w], EventRow) THEN 0 ELSE 1)]_vars

\* ------------------------------------------------------------------------
\* C35
\* ------------------------------------------------------------------------
\* the step in which the OK response of the confirmRemoveScan call i is
\* processed
RemoveSucceeds(i) ==
  /\ i \in 1..Len(rm)
  /\ rm[i].pc = "accepted"
  /\ rm' = RemoveAt(rm, i)
  /\ restarts' = restarts
\* C35: a remove the remote accepted is counted once. When its OK response
\* is processed, the count of the workspace falls by one if the row is still
\* listed and stays if the row-deleted event has taken the row, and one from
\* the count, before.
C35_RemoveCountedOnce ==
  [][\A i \in 1..MaxRemove :
       RemoveSucceeds(i) =>
         total'[rm[i].m] =
           total[rm[i].m] -
             (IF EntriesWithId(scans[rm[i].m], rm[i].id) > 0 THEN 1 ELSE 0)]_vars

\* ------------------------------------------------------------------------
\* C36
\* ------------------------------------------------------------------------
\* how often the capture c is kept in the workspace w: rows of the remote
\* table plus items of the queue
Persisted(w, c) ==
  Cardinality({r \in server[endpointStaged(w)] : r.cap = c})
    + Cardinality({x \in Queue(w) : x.payload.cap = c})
\* C36: a capture is persisted at most once, however often Confirm & Save is
\* clicked while its confirmation is under way: it has at most one remote
\* row or queue item and at most one list entry.
C36_PersistedOnce ==
  \A w \in Modes : \A c \in 1..MaxCaps :
    /\ Persisted(w, c) <= 1
    /\ EntriesOfCapture(scans[w], c) <= 1

\* ------------------------------------------------------------------------
\* C37
\* ------------------------------------------------------------------------
\* C37: every serial that waits in the queue of a workspace is reported by
\* the local duplicate check of that workspace (serial index or known set).
C37_QueuedIsKnown ==
  \A w \in Modes : \A x \in Queue(w) : isKnownDuplicate(x.payload.serial, w)

\* ------------------------------------------------------------------------
\* C38
\* ------------------------------------------------------------------------
\* the captures of the rows of the list that carry the identifier id
CapturesWithId(list, id) == {list[k].cap : k \in {j \in 1..Len(list) : list[j].id = id}}
\* C38: a removed local row is not left in the queue. When the OK response
\* of a remove of a listed row with a temporary identifier is processed and
\* the row leaves the list, the queue of that workspace holds no item of the
\* capture the row was staged from.
C38_RemovedLeavesQueue ==
  [][\A i \in 1..MaxRemove :
       (RemoveSucceeds(i) /\ rm[i].id.k = "tmp") =>
         \A x \in QueueIn(db', rm[i].m) :
           x.payload.cap \notin CapturesWithId(scans[rm[i].m], rm[i].id)]_vars

\* ------------------------------------------------------------------------
\* C39
\* ------------------------------------------------------------------------
\* the step in which the POST of the confirmPending call i fails and its
\* catch block begins
SubmitFails(i) ==
  /\ i \in 1..Len(conf)
  /\ conf[i].pc = "submit"
  /\ Len(conf') = Len(conf)
  /\ conf'[i].pc = "idbAdd"
\* the step in which the idbAdd of that catch block rejects
EnqueueFails(i) ==
  /\ i \in 1..Len(conf)
  /\ conf[i].pc = "idbAdd"
  /\ conf' = RemoveAt(conf, i)
  /\ idbFaults' = idbFaults + 1
\* C39: a confirmation whose submit and whose enqueue both fail has no
\* partial effect. The step in which the submit fails and the step in which
\* the enqueue fails leave the pending candidate and its QR extras in place
\* and change neither the lists, the counts, the known sets nor the queues.
C39_NoPartialEffect ==
  [][\A i \in 1..MaxConf :
       (SubmitFails(i) \/ EnqueueFails(i)) =>
         /\ pending' = pending
         /\ qrExtras' = qrExtras
         /\ scans' = scans
         /\ total' = total
         /\ known' = known
         /\ db' = db]_vars
\* the only capture made is still pending after its confirmation met both
\* failures, and nothing is listed, counted, known or queued
C39_Witness ==
  /\ idbFaults = 1
  /\ conf = <<>>
  /\ det = <<>>
  /\ nextCap = 1
  /\ pending # None
  /\ pending[1].capturedAt = 1
  /\ \A w \in Modes : scans[w] = <<>> /\ total[w] = 0 /\ Queue(w) = {}
====
